---- MODULE Spec2Model ----
(***************************************************************************)
(* Pull replication session of the data proxy                              *)
(* (src/src/replication/replication_handler.rs).                           *)
(*                                                                         *)
(* One session of ReplicationHandler::process for one remote endpoint:     *)
(* the response demux task, the sync ledger task, the backend driver task, *)
(* the chunk validator and the writer of load_into_backend, and the        *)
(* finalizer loop of process itself.  The remote proxy is the environment: *)
(* every frame the demux reads is a frame the peer chose to send.          *)
(***************************************************************************)
EXTENDS Integers, Sequences, FiniteSets, TLC

\* ------------------------------------------------------------------ bounds
\* Largest chunk count an ObjectInfo advertises in the model.
MaxChunks == 3
\* Capacity of a per-object chunk queue (async_channel::bounded(100) in the
\* source, scaled down so that a full queue is reachable).
QueueCap == 2
\* Chunks a faulty peer sends out of turn in one session.
MaxFrames == 7
\* Payloads are 1..MaxData; payload d is d bytes long.
MaxData == 1

\* ------------------------------------------------------- program constants
\* `retry_counter > 5`
RetryLimit == 5
\* `batch_counter > 20`
PassLimit == 20

\* The objects of the model; a session pulls a non-empty subset of them.
Objs == {"o1", "o2"}

Data == 1..MaxData

\* hex::encode(Md5::digest(data)): a digest per payload, distinct from the
\* payload and distinct for distinct payloads of the model.
Md5Hex(d) == 100 + d

\* The checksums a frame can carry: the digest of every payload, and one
\* (100) that is the digest of no payload.
Sums == 100..(100 + MaxData)

\* hex SHA-256 of the bytes written: identified by the written payloads.
Sha256Hex(payloads) == <<"sha256", payloads>>

RECURSIVE SumLen(_)
\* SizeProbe: the number of bytes that went through the pipeline.
SumLen(payloads) ==
    IF payloads = <<>> THEN 0 ELSE Head(payloads) + SumLen(Tail(payloads))

\* RcvSync markers of the sync ledger.
Info(o, n) == [kind |-> "Info", id |-> o, n |-> n]
ChunkMark(o, k) == [kind |-> "Chunk", id |-> o, n |-> k]

\* Frames of the outbound stream (PullReplicationRequest).
InfoAck(o) == [kind |-> "InfoAck", id |-> o, n |-> 0]
ChunkAck(o, k) == [kind |-> "ChunkAck", id |-> o, n |-> k]
RetryChunk(o, k) == [kind |-> "RetryChunk", id |-> o, n |-> k]
RetryObjectId(o) == [kind |-> "RetryObjectId", id |-> o, n |-> 0]
Abort == [kind |-> "Abort", id |-> "", n |-> 0]
FinishMessage == [kind |-> "Finish", id |-> "", n |-> 0]

\* DataChunk { object_id, chunk_idx, data, checksum }
DataChunk(o, k, d, s) == [object_id |-> o, chunk_idx |-> k, data |-> d, checksum |-> s]

\* A cache entry without a location, and the template entry of the
\* object-handler map.
NoLocation == [set |-> FALSE, disk_content_len |-> 0, disk_hash |-> <<>>]
NoEntry == [present |-> FALSE, chunks |-> 0, info |-> FALSE]
Template == [present |-> TRUE, chunks |-> 0, info |-> FALSE]

VARIABLES
    batch,      \* the pull list of the session (object ids of the InitMessage)
    plan,       \* chunks each object has at the peer
    peerMode,   \* "valid": the peer follows the protocol; "faulty": it also
                \* sends chunks out of turn
    envOk,      \* TRUE: backend, cache and metadata server calls never fail
    cache,      \* cache.resources: object -> location (or none)
    status,     \* replication status at the metadata server
    main,       \* position of process(): init, wait, check, aborted, returned, failed
    map,        \* object_handler_map
    queue,      \* per-object chunk queue
    peerNext,   \* valid peer: -1 before ObjectInfo, then the next chunk index
    frames,     \* chunks a faulty peer has sent out of turn
    dpc,        \* demux: idle, recv, blocked, ack, done, err
    dcur,       \* demux: the chunk forwarded but not yet recorded and acked
    startSig,   \* start channel: "unsent", "sent", "taken"
    ledger,     \* the set `sync` of the sync ledger task
    snapshot,   \* finish channel: <<>> or <<set>>
    drv,        \* driver: idle, wait, pass, load, upsert, status, done, err
    passes,     \* batch_counter
    snap,       \* the driver's snapshot `batch` of the map
    todo,       \* entries of the snapshot not visited yet
    cur,        \* object handed to load_into_backend
    maxChunks,  \* max_chunks of load_into_backend
    vpc,        \* validator: idle, run, ok, closed, err_missing, err_checksum,
                \* err_send
    expected,   \* validator: expected
    retry,      \* validator: retry_counter
    written,    \* chunks forwarded to the writer for `cur`
    wpc,        \* writer: idle, run, ok, failed
    hashSent,   \* the hashing transformer and size probe delivered their values
    location,   \* the location load_into_backend fills in
    finished,   \* finished_objects: object -> "absent", "true", "false"
    fsnap,      \* finalizer: the ledger snapshot it received
    finTodo,    \* finalizer: Info markers not checked yet
    sent,       \* Abort, FinishMessage, InfoAck, ChunkAck and RetryObjectId
                \* frames sent on the outbound stream
    lastRetry,  \* the last RetryChunk frame the validator sent, if any
    spent,      \* history: retry_counter when the validator last forwarded a chunk
    result,     \* objects returned to the scheduler
    badRun,     \* history: wrong-checksum Chunk(0) frames consumed in a row since
                \* load_into_backend started, -1 once anything else was consumed
    oooRun      \* history: how much of Chunk 0, 2, 1, 2 (all with correct
                \* checksums) the validator has consumed, -1 once it deviated

\* The variables of one replication session.
sessionVars == <<batch, plan, peerMode, envOk, cache, status, main, map, queue,
                 peerNext, frames, dpc, dcur, startSig, ledger, snapshot, drv, passes,
                 snap, todo, cur, maxChunks, vpc, expected, retry, written, wpc,
                 hashSent, location, finished, fsnap, finTodo, sent, lastRetry, spent,
                 result,
                 badRun, oooRun>>

\* ------------------------------------------------------------- scheduler
\* ReplicationHandler::run: the receive task and the 30 s process loop on
\* the shared per-endpoint queue.
VARIABLES
    intents,    \* the DashMap `queue`: endpoint -> list of Direction (or no key)
    rpc,        \* receive task: recv, alter, insert
    rmsg,       \* receive task: the ReplicationMessage in hand
    recvCount,  \* messages taken from the channel so far
    handled,    \* history: messages whose alter or insert has returned
    spc,        \* process loop: sleep, process, insession, evict, get, remove, dead
    tickKeys,   \* endpoints that had a key when the tick started
    tickHandled, \* history: messages put into the queue since the tick started
    visited,    \* endpoints process() has iterated over in this tick
    scur,       \* endpoint whose session is open
    spull,      \* the pull list of the open session
    sresult,    \* `result` of process(): sequence of <<endpoint, pulled objects>>
    isEmpty,    \* `is_empty` of the eviction loop
    tickPulled, \* history: <<endpoint, object>> returned by sessions of this tick
    pulled,     \* history: <<endpoint, object>> returned by any session
    pushSeen,   \* history: <<endpoint, Push intent>> a session of this tick saw
    pushOld,    \* history: <<endpoint, Push intent>> a session of an earlier
                \* tick saw
    pushOnlyOpened  \* history: a stream was opened for an endpoint whose list
                    \* held nothing but Push intents an earlier tick saw

schedVars == <<intents, rpc, rmsg, recvCount, handled, spc, tickKeys, tickHandled,
               visited, scur, spull, sresult, isEmpty, tickPulled, pulled, pushSeen,
               pushOld, pushOnlyOpened>>

\* ------------------------------------------------------------------ auth
\* AuthHandler: one call of check_permissions, of the intent codec or of
\* check_access, with its input and what it returned.
VARIABLES
    aop,        \* the call: none, check_permissions, codec, handle_root,
                \* handle_object, handle_bucket, resolve, minted
    ain,        \* its input
    aout        \* its outcome

authVars == <<aop, ain, aout>>

\* ------------------------------------------------------- presigned URLs
\* PresignHandler: a URL signed by sign_url and one call of verify_sign_url.
VARIABLES
    signed,     \* the URL sign_url returned: its path and its query pairs
    verified    \* a call of verify_sign_url: parameters, path, outcome

\* ------------------------------------------------------------ S3 backend
\* S3Backend: concurrent callers of create_bucket, put_object and
\* init_multipart_upload, and the buckets of the S3 server.
VARIABLES
    buckets,    \* the buckets the server holds
    cpc,        \* per caller: idle, check, create, upload
    cop,        \* per caller: the operation and the bucket of the call
    cres        \* per caller: the results of the calls it made, in order

\* ----------------------------------------------------------------- ranges
\* calculate_ranges: one call with its input and what it returned.
VARIABLES
    rin,        \* the S3 range and the content length
    rout        \* the range returned and its content length, or the panic

presignVars == <<signed, verified>>
backendVars == <<buckets, cpc, cop, cres>>
rangeVars == <<rin, rout>>
toolVars == <<presignVars, backendVars, rangeVars>>

vars == <<sessionVars, schedVars, authVars, toolVars>>

\* Messages the receive task takes from the channel in a run of the model.
MaxMsgs == 3

Endpoints == {"e1", "e2"}

Pull(o) == [dir |-> "Pull", id |-> o]
Push(o) == [dir |-> "Push", id |-> o]
Directions == {Pull(o) : o \in Objs} \cup {Push("o1")}

NoKey == [present |-> FALSE, list |-> <<>>]
NoMsg == [endpoint_id |-> "", direction |-> Pull("")]

\* run() before its two tasks took a step: an empty queue.
SchedStart ==
    /\ intents = [e \in Endpoints |-> NoKey]
    /\ rpc = "recv"
    /\ rmsg = NoMsg
    /\ recvCount = 0
    /\ handled = {}
    /\ spc = "sleep"
    /\ tickKeys = {}
    /\ tickHandled = {}
    /\ visited = {}
    /\ scur = ""
    /\ spull = {}
    /\ sresult = <<>>
    /\ isEmpty = FALSE
    /\ tickPulled = {}
    /\ pulled = {}
    /\ pushSeen = {}
    /\ pushOld = {}
    /\ pushOnlyOpened = FALSE

\* No call of the AuthHandler yet.
AuthStart ==
    /\ aop = "none"
    /\ ain = <<>>
    /\ aout = <<>>

\* The callers of the S3 backend.
Callers == {"c1", "c2"}
NoCall == [op |-> "", bucket |-> ""]

\* Nothing signed or verified, an S3 server without buckets and idle
\* callers, no range calculated.
ToolStart ==
    /\ signed = <<>>
    /\ verified = <<>>
    /\ buckets = {}
    /\ cpc = [c \in Callers |-> "idle"]
    /\ cop = [c \in Callers |-> NoCall]
    /\ cres = [c \in Callers |-> <<>>]
    /\ rin = <<>>
    /\ rout = <<>>

\* ------------------------------------------------------------------- Init
\* A location that is already in the cache before the session.
OldLocation == [set |-> TRUE, disk_content_len |-> 1, disk_hash |-> Sha256Hex(<<1>>)]

\* Pull lists of the model (the two objects are interchangeable).  A
\* faulty peer is modelled for the single-object pull list and with calls
\* to backend, cache and metadata server that succeed.
Batches == {{"o1"}, {"o1", "o2"}}

Init ==
    /\ batch \in Batches
    /\ peerMode \in {"valid", "faulty"}
    /\ envOk \in BOOLEAN
    /\ peerMode = "faulty" => (batch = {"o1"} /\ envOk)
    /\ plan \in [Objs -> 0..MaxChunks]
    /\ \A o \in Objs : o \notin batch => plan[o] = 0
    /\ cache \in [Objs -> {NoLocation, OldLocation}]
    /\ \A o \in Objs : o \notin batch => cache[o] = NoLocation
    /\ status = [o \in Objs |-> "none"]
    /\ main = "init"
    /\ map = [o \in Objs |-> NoEntry]
    /\ queue = [o \in Objs |-> <<>>]
    /\ peerNext = [o \in Objs |-> -1]
    /\ frames = 0
    /\ dpc = "idle"
    /\ dcur = <<>>
    /\ startSig = "unsent"
    /\ ledger = {}
    /\ snapshot = <<>>
    /\ drv = "idle"
    /\ passes = 0
    /\ snap = [o \in Objs |-> NoEntry]
    /\ todo = {}
    /\ cur = "o1"
    /\ maxChunks = 0
    /\ vpc = "idle"
    /\ expected = 0
    /\ retry = 0
    /\ written = <<>>
    /\ wpc = "idle"
    /\ hashSent = FALSE
    /\ location = NoLocation
    /\ finished = [o \in Objs |-> "absent"]
    /\ fsnap = {}
    /\ finTodo = {}
    /\ sent = {}
    /\ lastRetry = <<>>
    /\ spent = 0
    /\ result = <<>>
    /\ badRun = 0
    /\ oooRun = 0
    /\ SchedStart
    /\ AuthStart
    /\ ToolStart

\* The outcomes of a call to the backend, the cache or the metadata server:
\* all of them where such calls can fail, the good ones where they cannot.
Outcomes(all, good) == IF envOk THEN good ELSE all

\* Sending a frame on the outbound request stream.  The state keeps the
\* frames that close a session (Abort, FinishMessage) and the answers of
\* the demux (InfoAck, ChunkAck, RetryObjectId); the last RetryChunk is
\* kept in lastRetry.
Send(f) ==
    sent' = IF f.kind \in {"Abort", "Finish", "InfoAck", "ChunkAck", "RetryObjectId"}
            THEN sent \cup {f} ELSE sent

\* --------------------------------------------------------- session set-up
\* process(): open the stream with the InitMessage, mark every object
\* Running, insert the template entries, spawn the three tasks.  A failing
\* pull_replication or update_replication_status ends process() with the
\* error, after some of the objects were marked Running.
StartSession ==
    /\ main = "init"
    /\ \E marked \in Outcomes(SUBSET batch, {batch}) :
          /\ status' = [o \in Objs |-> IF o \in marked THEN "Running" ELSE "none"]
          /\ IF marked = batch
             THEN /\ map' = [o \in Objs |-> IF o \in batch THEN Template ELSE NoEntry]
                  /\ main' = "wait"
                  /\ dpc' = "recv"
                  /\ drv' = "wait"
             ELSE /\ main' = "failed"
                  /\ UNCHANGED <<map, dpc, drv>>
    /\ UNCHANGED <<lastRetry, spent>>
    /\ UNCHANGED <<schedVars, authVars, toolVars>>
    /\ UNCHANGED <<batch, plan, peerMode, envOk, cache, queue, peerNext, frames, dcur,
                   startSig, ledger, snapshot, passes, snap, todo, cur, maxChunks,
                   vpc, expected, retry, written, wpc, hashSent, location, finished,
                   fsnap, finTodo, sent, result, badRun, oooRun>>

\* ------------------------------------------------------------------- peer
Frame(t, o, n, d, s) == [t |-> t, id |-> o, n |-> n, d |-> d, s |-> s]

\* The frames the remote proxy may send next.  The peer sends, per object of
\* the InitMessage, one ObjectInfo and then the chunks 0..N-1 in order with
\* their MD5, interleaving objects as it likes, and ends the stream once the
\* session was finished or aborted.  A faulty peer sends in addition, at
\* any time after an object's ObjectInfo, chunks of that object with any
\* index and any checksum (repeats, skipped chunks, damaged chunks), and
\* may break off at any time with a response that carries no message.
PeerFrames ==
    {Frame("info", o, plan[o], 0, 0) : o \in {x \in batch : peerNext[x] = -1}}
    \cup {Frame("chunk", o, peerNext[o], d, Md5Hex(d)) :
            o \in {x \in batch : peerNext[x] >= 0 /\ peerNext[x] < plan[x]},
            d \in Data}
    \cup (IF FinishMessage \in sent \/ Abort \in sent
          THEN {Frame("finish", "", 0, 0, 0)} ELSE {})
    \cup (IF peerMode = "faulty" THEN {Frame("none", "", 0, 0, 0)} ELSE {})
    \cup (IF peerMode = "faulty" /\ frames < MaxFrames
          THEN {Frame("extra", o, k, d, s) :
                  o \in {x \in batch : peerNext[x] >= 0},
                  k \in 0..(MaxChunks - 1), d \in Data, s \in Sums}
          ELSE {})

\* ------------------------------------------------------------------ demux
\* Variant: every object id is taken to have a map entry.
MappedAlways(o) == TRUE

\* data_map.get(&object_id) finds an entry.
Mapped(o) == map[o].present

\* Variant: the next frame is read while the answer to a chunk is due.
ReadingEarly == dpc \in {"recv", "ack"}

\* `while let Some(response) = response_stream.message().await?`: the
\* next frame is read when the arm of the previous one has run to its end.
Reading == dpc = "recv"

\* The response demux task reads one frame.
DemuxRecv ==
    /\ Reading
    /\ \E f \in PeerFrames :
        /\ frames' = IF f.t = "extra" THEN frames + 1 ELSE frames
        /\ peerNext' = IF f.t \in {"info", "chunk"}
                       THEN [peerNext EXCEPT ![f.id] = @ + 1] ELSE peerNext
        /\ CASE f.t = "info" ->
                  \* Info marker, map entry, InfoAck, start signal on the first info
                  /\ ledger' = ledger \cup {Info(f.id, f.n)}
                  /\ map' = IF map[f.id].present
                            THEN [map EXCEPT ![f.id] =
                                    [present |-> TRUE, chunks |-> f.n, info |-> TRUE]]
                            ELSE map
                  /\ Send(InfoAck(f.id))
                  /\ startSig' = IF startSig = "unsent" THEN "sent" ELSE startSig
                  /\ UNCHANGED <<dpc, dcur, queue>>
             [] f.t \in {"chunk", "extra"} /\ Mapped(f.id) ->
                  \* forward into the object's queue (blocks while it is full)
                  /\ dcur' = <<DataChunk(f.id, f.n, f.d, f.s)>>
                  /\ IF Len(queue[f.id]) < QueueCap
                     THEN /\ queue' = [queue EXCEPT ![f.id] =
                                          Append(@, DataChunk(f.id, f.n, f.d, f.s))]
                          /\ dpc' = "ack"
                     ELSE /\ dpc' = "blocked"
                          /\ UNCHANGED queue
                  /\ UNCHANGED <<ledger, map, sent, startSig>>
             [] f.t \in {"chunk", "extra"} /\ ~Mapped(f.id) ->
                  /\ Send(RetryObjectId(f.id))
                  /\ UNCHANGED <<dpc, dcur, queue, ledger, map, startSig>>
             [] f.t = "finish" ->
                  /\ dpc' = "done"
                  /\ UNCHANGED <<dcur, queue, ledger, map, sent, startSig>>
             [] f.t = "none" ->
                  /\ dpc' = "err"
                  /\ UNCHANGED <<dcur, queue, ledger, map, sent, startSig>>
    /\ UNCHANGED <<lastRetry, spent>>
    /\ UNCHANGED <<schedVars, authVars, toolVars>>
    /\ UNCHANGED <<batch, plan, peerMode, envOk, cache, status, main, snapshot, drv,
                   passes, snap, todo, cur, maxChunks, vpc, expected, retry, written,
                   wpc, hashSent, location, finished, fsnap, finTodo, result, badRun, oooRun>>

\* The demux was waiting on a full chunk queue and the queue has room now.
DemuxUnblock ==
    /\ dpc = "blocked"
    /\ Len(queue[dcur[1].object_id]) < QueueCap
    /\ queue' = [queue EXCEPT ![dcur[1].object_id] = Append(@, dcur[1])]
    /\ dpc' = "ack"
    /\ UNCHANGED <<lastRetry, spent>>
    /\ UNCHANGED <<schedVars, authVars, toolVars>>
    /\ UNCHANGED <<batch, plan, peerMode, envOk, cache, status, main, map, peerNext,
                   frames, dcur, startSig, ledger, snapshot, drv, passes, snap, todo,
                   cur, maxChunks, vpc, expected, retry, written, wpc, hashSent,
                   location, finished, fsnap, finTodo, sent, result, badRun, oooRun>>

\* After the chunk was forwarded: Chunk marker into the ledger, ChunkAck.
DemuxAck ==
    /\ dpc = "ack"
    /\ ledger' = ledger \cup {ChunkMark(dcur[1].object_id, dcur[1].chunk_idx)}
    /\ Send(ChunkAck(dcur[1].object_id, dcur[1].chunk_idx))
    /\ dcur' = <<>>
    /\ dpc' = "recv"
    /\ UNCHANGED <<lastRetry, spent>>
    /\ UNCHANGED <<schedVars, authVars, toolVars>>
    /\ UNCHANGED <<batch, plan, peerMode, envOk, cache, status, main, map, queue,
                   peerNext, frames, startSig, snapshot, drv, passes, snap, todo, cur,
                   maxChunks, vpc, expected, retry, written, wpc, hashSent, location,
                   finished, fsnap, finTodo, result, badRun, oooRun>>

\* ----------------------------------------------------------------- driver
\* The entries of the object-handler map.
Present(m) == {o \in Objs : m[o].present}

\* The backend driver receives the start signal and begins its first pass:
\* batch_counter = 1 and a snapshot of the map.
DriverStart ==
    /\ drv = "wait"
    /\ startSig = "sent"
    /\ startSig' = "taken"
    /\ passes' = 1
    /\ snap' = map
    /\ todo' = Present(map)
    /\ drv' = "pass"
    /\ UNCHANGED <<lastRetry, spent>>
    /\ UNCHANGED <<schedVars, authVars, toolVars>>
    /\ UNCHANGED <<batch, plan, peerMode, envOk, cache, status, main, map, queue,
                   peerNext, frames, dpc, dcur, ledger, snapshot, cur, maxChunks, vpc,
                   expected, retry, written, wpc, hashSent, location, finished, fsnap,
                   finTodo, sent, result, badRun, oooRun>>

\* start_receiver.recv() fails once the demux task (the only sender) ended.
DriverExit ==
    /\ drv = "wait"
    /\ startSig # "sent"
    /\ dpc \in {"done", "err"}
    /\ drv' = "done"
    /\ UNCHANGED <<lastRetry, spent>>
    /\ UNCHANGED <<schedVars, authVars, toolVars>>
    /\ UNCHANGED <<batch, plan, peerMode, envOk, cache, status, main, map, queue,
                   peerNext, frames, dpc, dcur, startSig, ledger, snapshot, passes,
                   snap, todo, cur, maxChunks, vpc, expected, retry, written, wpc,
                   hashSent, location, finished, fsnap, finTodo, sent, result,
                   badRun, oooRun>>

\* Variant: an entry is never taken to be awaiting its info.
AwaitingInfoNever(e) == FALSE

\* `!synced`: the entry of the snapshot has info_received = false.
AwaitingInfo(e) == ~e.info

\* One entry of the snapshot: already synced, still awaiting its info, or
\* initialize_location and the start of load_into_backend (the validator
\* and the writer are spawned).
DriverEntry ==
    /\ drv = "pass"
    /\ \E o \in todo :
        /\ todo' = todo \ {o}
        /\ IF cache[o].set
           THEN /\ finished' = [finished EXCEPT ![o] = "true"]
                /\ map' = [map EXCEPT ![o] = NoEntry]
                /\ UNCHANGED <<drv, cur, maxChunks, vpc, expected, retry, written,
                               wpc, hashSent, location, badRun, oooRun, lastRetry,
                               spent>>
           ELSE IF AwaitingInfo(snap[o])
           THEN UNCHANGED <<finished, map, drv, cur, maxChunks, vpc, expected, retry,
                            written, wpc, hashSent, location, badRun, oooRun, lastRetry,
                            spent>>
           ELSE \E ok \in Outcomes(BOOLEAN, {TRUE}) :
                IF ok
                THEN /\ drv' = "load"
                     /\ cur' = o
                     /\ maxChunks' = snap[o].chunks
                     /\ location' = NoLocation
                     /\ vpc' = "run"
                     /\ expected' = 0
                     /\ retry' = 0
                     /\ written' = <<>>
                     /\ wpc' = "run"
                     /\ hashSent' = FALSE
                     /\ badRun' = 0
                     /\ oooRun' = 0
                     /\ lastRetry' = <<>>
                     /\ spent' = 0
                     /\ UNCHANGED <<finished, map>>
                ELSE /\ drv' = "err"
                     /\ UNCHANGED <<finished, map, cur, maxChunks, vpc, expected,
                                    retry, written, wpc, hashSent, location, badRun,
                                    oooRun, lastRetry, spent>>
    /\ UNCHANGED <<batch, plan, peerMode, envOk, cache, status, main, queue, peerNext,
                   frames, dpc, dcur, startSig, ledger, snapshot, passes, snap, fsnap,
                   finTodo, sent, result>>
    /\ UNCHANGED <<schedVars, authVars, toolVars>>

\* ------------------------------------------------------- load_into_backend
\* Variant: only a chunk that was already taken is out of turn.
IndexMismatchBehind(idx, exp) == idx < exp

\* `idx != expected`
IndexMismatch(idx, exp) == idx # exp

\* Variant: the checksum is not compared.
ChecksumMismatchNever(c) == FALSE

\* `calculated_hash != hash`
ChecksumMismatch(c) == Md5Hex(c.data) # c.checksum

\* `retry_counter > 5`
RetriesExceeded(r) == r > RetryLimit

\* `expected` after a chunk passed the index check: `expected += 1` is in
\* the else branch of the index check, before the checksum check.
ExpectedAfterIndexCheck(exp, c) == exp + 1

\* Variant: the last chunk is taken to be the one with index max_chunks.
LastChunkOffByOne(idx, max) == idx = max

\* `(idx + 1) == max_chunks`
LastChunk(idx, max) == (idx + 1) = max

OooPattern == <<0, 2, 1, 2>>

\* The chunk validator task takes one chunk from the object's queue, or
\* leaves its loop when the queue is closed: the senders of the queue are
\* held by the handler map, which lives as long as demux or driver do.
ValidatorStep ==
    /\ vpc = "run"
    /\ IF queue[cur] = <<>>
       THEN /\ dpc \in {"done", "err"}
            /\ drv \in {"done", "err"}
            /\ vpc' = "closed"
            /\ UNCHANGED <<queue, badRun, oooRun, expected, retry, written, ledger,
                           sent, lastRetry, spent>>
       ELSE LET c == Head(queue[cur]) IN
        /\ queue' = [queue EXCEPT ![cur] = Tail(@)]
        /\ badRun' = IF badRun >= 0 /\ c.chunk_idx = 0 /\ Md5Hex(c.data) # c.checksum
                     THEN badRun + 1 ELSE -1
        /\ oooRun' = IF /\ oooRun >= 0
                        /\ oooRun < Len(OooPattern)
                        /\ Md5Hex(c.data) = c.checksum
                        /\ c.chunk_idx = OooPattern[oooRun + 1]
                     THEN oooRun + 1 ELSE -1
        /\ IF IndexMismatch(c.chunk_idx, expected)
           THEN IF RetriesExceeded(retry)
                THEN /\ vpc' = "err_missing"
                     /\ UNCHANGED <<expected, retry, written, ledger, sent, lastRetry, spent>>
                ELSE /\ Send(RetryChunk(c.object_id, expected))
                     /\ lastRetry' = <<RetryChunk(c.object_id, expected)>>
                     /\ retry' = retry + 1
                     /\ UNCHANGED <<vpc, expected, written, ledger, spent>>
           ELSE /\ expected' = ExpectedAfterIndexCheck(expected, c)
                /\ IF ChecksumMismatch(c)
                   THEN IF RetriesExceeded(retry)
                        THEN /\ vpc' = "err_checksum"
                             /\ UNCHANGED <<retry, written, ledger, sent, lastRetry, spent>>
                        ELSE /\ Send(RetryChunk(c.object_id, c.chunk_idx))
                             /\ lastRetry' = <<RetryChunk(c.object_id, c.chunk_idx)>>
                             /\ retry' = retry + 1
                             /\ UNCHANGED <<vpc, written, ledger, spent>>
                   ELSE IF wpc = "failed"
                        THEN \* the data stream was dropped with the writer
                             /\ vpc' = "err_send"
                             /\ UNCHANGED <<retry, written, ledger, sent, lastRetry, spent>>
                        ELSE /\ written' = Append(written, c)
                             /\ ledger' = ledger \cup {ChunkMark(c.object_id, c.chunk_idx)}
                             /\ vpc' = IF LastChunk(c.chunk_idx, maxChunks)
                                       THEN "ok" ELSE "run"
                             /\ spent' = retry
                             /\ UNCHANGED <<retry, sent, lastRetry>>
    /\ UNCHANGED <<batch, plan, peerMode, envOk, cache, status, main, map, peerNext,
                   frames, dpc, dcur, startSig, snapshot, drv, passes, snap, todo, cur,
                   maxChunks, wpc, hashSent, location, finished, fsnap, finTodo,
                   result>>
    /\ UNCHANGED <<schedVars, authVars, toolVars>>

\* The writer task: ArunaStreamReadWriter::process() ends when the data
\* stream ends, that is when the validator task has returned (with Ok or
\* with an error: its JoinHandle is dropped) and dropped data_sender.  The
\* transformers deliver hash and size when the stream was processed to its
\* end.  A failing backend makes process() fail at any time, before or
\* after hash and size were delivered.
WriterEnd ==
    /\ wpc = "run"
    /\ \E ok \in Outcomes(BOOLEAN, {TRUE}) :
          IF ok
          THEN /\ vpc # "run"
               /\ wpc' = "ok"
               /\ hashSent' = TRUE
          ELSE /\ wpc' = "failed"
               /\ hashSent' \in IF vpc # "run" THEN BOOLEAN ELSE {FALSE}
    /\ UNCHANGED <<lastRetry, spent>>
    /\ UNCHANGED <<schedVars, authVars, toolVars>>
    /\ UNCHANGED <<batch, plan, peerMode, envOk, cache, status, main, map, queue,
                   peerNext, frames, dpc, dcur, startSig, ledger, snapshot, drv, passes,
                   snap, todo, cur, maxChunks, vpc, expected, retry, written, location,
                   finished, fsnap, finTodo, sent, result, badRun, oooRun>>

Payloads(w) == [i \in 1..Len(w) |-> w[i].data]

\* load_into_backend after the writer task was joined: the writer's own
\* result is discarded (`let _ =`); try_recv of hash and size fails when
\* they were not delivered; otherwise both are written into the location.
LoadReturn ==
    /\ drv = "load"
    /\ wpc \in {"ok", "failed"}
    /\ IF hashSent
       THEN /\ location' = [set |-> TRUE,
                            disk_content_len |-> SumLen(Payloads(written)),
                            disk_hash |-> Sha256Hex(Payloads(written))]
            /\ drv' = "upsert"
       ELSE /\ drv' = "err"
            /\ UNCHANGED location
    /\ UNCHANGED <<lastRetry, spent>>
    /\ UNCHANGED <<schedVars, authVars, toolVars>>
    /\ UNCHANGED <<batch, plan, peerMode, envOk, cache, status, main, map, queue,
                   peerNext, frames, dpc, dcur, startSig, ledger, snapshot, passes,
                   snap, todo, cur, maxChunks, vpc, expected, retry, written, wpc,
                   hashSent, finished, fsnap, finTodo, sent, result, badRun,
                   oooRun>>

\* cache.upsert_object(object, Some(location))
DriverUpsert ==
    /\ drv = "upsert"
    /\ \E ok \in Outcomes(BOOLEAN, {TRUE}) :
          IF ok
          THEN /\ cache' = [cache EXCEPT ![cur] = location]
               /\ drv' = "status"
          ELSE /\ drv' = "err"
               /\ UNCHANGED cache
    /\ UNCHANGED <<lastRetry, spent>>
    /\ UNCHANGED <<schedVars, authVars, toolVars>>
    /\ UNCHANGED <<batch, plan, peerMode, envOk, status, main, map, queue, peerNext,
                   frames, dpc, dcur, startSig, ledger, snapshot, passes, snap, todo,
                   cur, maxChunks, vpc, expected, retry, written, wpc, hashSent,
                   location, finished, fsnap, finTodo, sent, result, badRun,
                   oooRun>>

\* update_replication_status(Finished), then the map entry is removed.
DriverStatus ==
    /\ drv = "status"
    /\ \E ok \in Outcomes(BOOLEAN, {TRUE}) :
          IF ok
          THEN /\ status' = [status EXCEPT ![cur] = "Finished"]
               /\ map' = [map EXCEPT ![cur] = NoEntry]
               /\ drv' = "pass"
          ELSE /\ drv' = "err"
               /\ UNCHANGED <<status, map>>
    /\ UNCHANGED <<lastRetry, spent>>
    /\ UNCHANGED <<schedVars, authVars, toolVars>>
    /\ UNCHANGED <<batch, plan, peerMode, envOk, cache, main, queue, peerNext, frames,
                   dpc, dcur, startSig, ledger, snapshot, passes, snap, todo, cur,
                   maxChunks, vpc, expected, retry, written, wpc, hashSent, location,
                   finished, fsnap, finTodo, sent, result, badRun, oooRun>>

\* End of a pass: Finish to the ledger when the map is empty, Abort and
\* Finish when batch_counter > 20, otherwise the next pass.  The ledger
\* task answers Finish with a snapshot of its set on the finish channel.
DriverPassEnd ==
    /\ drv = "pass"
    /\ todo = {}
    /\ IF Present(map) = {}
       THEN /\ snapshot' = <<ledger>>
            /\ drv' = "wait"
            /\ UNCHANGED <<passes, snap, todo, sent>>
       ELSE IF passes > PassLimit
       THEN /\ Send(Abort)
            /\ snapshot' = <<ledger>>
            /\ drv' = "wait"
            /\ UNCHANGED <<passes, snap, todo>>
       ELSE /\ passes' = passes + 1
            /\ snap' = map
            /\ todo' = Present(map)
            /\ UNCHANGED <<snapshot, drv, sent>>
    /\ UNCHANGED <<lastRetry, spent>>
    /\ UNCHANGED <<schedVars, authVars, toolVars>>
    /\ UNCHANGED <<batch, plan, peerMode, envOk, cache, status, main, map, queue,
                   peerNext, frames, dpc, dcur, startSig, ledger, cur, maxChunks, vpc,
                   expected, retry, written, wpc, hashSent, location, finished, fsnap,
                   finTodo, result, badRun, oooRun>>

\* -------------------------------------------------------------- finalizer
\* process() receives the ledger snapshot.
MainRecv ==
    /\ main = "wait"
    /\ snapshot # <<>>
    /\ fsnap' = snapshot[1]
    /\ finTodo' = {m \in snapshot[1] : m.kind = "Info"}
    /\ snapshot' = <<>>
    /\ main' = "check"
    /\ UNCHANGED <<lastRetry, spent>>
    /\ UNCHANGED <<schedVars, authVars, toolVars>>
    /\ UNCHANGED <<batch, plan, peerMode, envOk, cache, status, map, queue, peerNext,
                   frames, dpc, dcur, startSig, ledger, drv, passes, snap, todo, cur,
                   maxChunks, vpc, expected, retry, written, wpc, hashSent, location,
                   finished, sent, result, badRun, oooRun>>

\* Chunk markers of object o in a snapshot.
Collected(s, o) == Cardinality({m \in s : m.kind = "Chunk" /\ m.id = o})

\* Variant: only a shortfall of chunk markers counts as a difference.
CountsDifferShortfall(n, collected) == n > collected

\* `*chunks as usize != collected`
CountsDiffer(n, collected) == n # collected

\* The finalizer checks one Info marker (the set is iterated in no
\* particular order), or sends FinishMessage when all were checked.
MainCheck ==
    /\ main = "check"
    /\ IF finTodo = {}
       THEN /\ Send(FinishMessage)
            /\ main' = "wait"
            /\ UNCHANGED <<finished, finTodo>>
       ELSE \E m \in finTodo :
            /\ finTodo' = finTodo \ {m}
            /\ IF CountsDiffer(m.n, Collected(fsnap, m.id))
               THEN IF finished[m.id] = "true"
                    THEN UNCHANGED <<finished, main, sent>>
                    ELSE /\ Send(Abort)
                         /\ main' = "aborted"
                         /\ UNCHANGED finished
               ELSE /\ finished' = [finished EXCEPT ![m.id] = "false"]
                    /\ UNCHANGED <<main, sent>>
    /\ UNCHANGED <<lastRetry, spent>>
    /\ UNCHANGED <<schedVars, authVars, toolVars>>
    /\ UNCHANGED <<batch, plan, peerMode, envOk, cache, status, map, queue, peerNext,
                   frames, dpc, dcur, startSig, ledger, snapshot, drv, passes, snap,
                   todo, cur, maxChunks, vpc, expected, retry, written, wpc, hashSent,
                   location, fsnap, result, badRun, oooRun>>

\* The finish channel is closed once the ledger task ended, which it does
\* when demux, driver and validator dropped their ledger senders.  The keys
\* of finished_objects are returned to the scheduler.
MainReturn ==
    /\ main = "wait"
    /\ snapshot = <<>>
    /\ dpc \in {"done", "err"}
    /\ drv \in {"done", "err"}
    /\ vpc # "run"
    /\ result' = <<{o \in Objs : finished[o] # "absent"}>>
    /\ main' = "returned"
    /\ UNCHANGED <<lastRetry, spent>>
    /\ UNCHANGED <<schedVars, authVars, toolVars>>
    /\ UNCHANGED <<batch, plan, peerMode, envOk, cache, status, map, queue, peerNext,
                   frames, dpc, dcur, startSig, ledger, snapshot, drv, passes, snap,
                   todo, cur, maxChunks, vpc, expected, retry, written, wpc, hashSent,
                   location, finished, fsnap, finTodo, sent, badRun, oooRun>>

\* ---------------------------------------------------------- specification
Next ==
    \/ StartSession
    \/ DemuxRecv
    \/ DemuxUnblock
    \/ DemuxAck
    \/ DriverStart
    \/ DriverExit
    \/ DriverEntry
    \/ ValidatorStep
    \/ WriterEnd
    \/ LoadReturn
    \/ DriverUpsert
    \/ DriverStatus
    \/ DriverPassEnd
    \/ MainRecv
    \/ MainCheck
    \/ MainReturn

Spec == Init /\ [][Next]_vars

\* The session with a peer that follows the protocol and calls that do not
\* fail, under the scheduling of the runtime: a task that can take a step
\* takes one, and the peer sends the frames it has to send.
InitFair == Init /\ peerMode = "valid" /\ envOk

Demux == DemuxRecv \/ DemuxUnblock \/ DemuxAck
Driver ==
    \/ DriverStart
    \/ DriverExit
    \/ DriverEntry
    \/ LoadReturn
    \/ DriverUpsert
    \/ DriverStatus
    \/ DriverPassEnd
Main == StartSession \/ MainRecv \/ MainCheck \/ MainReturn

FairSpec ==
    /\ InitFair
    /\ [][Next]_vars
    /\ WF_vars(Demux)
    /\ WF_vars(Driver)
    /\ WF_vars(ValidatorStep)
    /\ WF_vars(WriterEnd)
    /\ WF_vars(Main)

\* ============================================================== scheduler
\* The elements of list l that pass the test keep(x), in order.
RECURSIVE Filter(_, _)
Filter(l, keep) ==
    IF l = <<>> THEN <<>>
    ELSE IF Head(l) \in keep THEN <<Head(l)>> \o Filter(Tail(l), keep)
         ELSE Filter(Tail(l), keep)

Elems(l) == {l[i] : i \in 1..Len(l)}

\* `pull` of process(): the objects of the Pull entries of a list.
PullIds(l) == {d.id : d \in {x \in Elems(l) : x.dir = "Pull"}}

\* The iterator of process() holds the shard of the entry it stands on, so
\* a write to that entry waits until the session of the entry has ended.
Held(e) == spc = "insession" /\ scur = e

\* Receive task: receiver.recv() and queue_clone.contains_key(&endpoint_id).
RecvMessage ==
    /\ rpc = "recv"
    /\ recvCount < MaxMsgs
    /\ \E e \in Endpoints, d \in Directions :
          /\ rmsg' = [endpoint_id |-> e, direction |-> d]
          /\ rpc' = IF intents[e].present THEN "alter" ELSE "insert"
    /\ recvCount' = recvCount + 1
    /\ UNCHANGED <<intents, handled, spc, tickKeys, tickHandled, visited, scur, spull,
                   sresult, isEmpty, tickPulled, pulled, pushSeen, pushOld, pushOnlyOpened>>
    /\ UNCHANGED <<sessionVars, authVars, toolVars>>

\* Receive task: queue_clone.alter(..push..); alter leaves a map without the
\* key as it is.
RecvAlter ==
    /\ rpc = "alter"
    /\ ~Held(rmsg.endpoint_id)
    /\ intents' = IF intents[rmsg.endpoint_id].present
                  THEN [intents EXCEPT ![rmsg.endpoint_id].list =
                                           Append(@, rmsg.direction)]
                  ELSE intents
    /\ handled' = handled \cup {<<rmsg.endpoint_id, rmsg.direction>>}
    /\ tickHandled' = tickHandled \cup {<<rmsg.endpoint_id, rmsg.direction>>}
    /\ rpc' = "recv"
    /\ rmsg' = NoMsg
    /\ UNCHANGED <<recvCount, spc, tickKeys, visited, scur, spull, sresult,
                   isEmpty, tickPulled, pulled, pushSeen, pushOld, pushOnlyOpened>>
    /\ UNCHANGED <<sessionVars, authVars, toolVars>>

\* Receive task: queue_clone.insert(endpoint_id, vec![direction]).
RecvInsert ==
    /\ rpc = "insert"
    /\ ~Held(rmsg.endpoint_id)
    /\ intents' = [intents EXCEPT ![rmsg.endpoint_id] =
                      [present |-> TRUE, list |-> <<rmsg.direction>>]]
    /\ handled' = handled \cup {<<rmsg.endpoint_id, rmsg.direction>>}
    /\ tickHandled' = tickHandled \cup {<<rmsg.endpoint_id, rmsg.direction>>}
    /\ rpc' = "recv"
    /\ rmsg' = NoMsg
    /\ UNCHANGED <<recvCount, spc, tickKeys, visited, scur, spull, sresult,
                   isEmpty, tickPulled, pulled, pushSeen, pushOld, pushOnlyOpened>>
    /\ UNCHANGED <<sessionVars, authVars, toolVars>>

\* Process loop: the 30 s sleep has ended and process(batch) is called.
Tick ==
    /\ spc = "sleep"
    /\ spc' = "process"
    /\ tickKeys' = {e \in Endpoints : intents[e].present}
    /\ tickHandled' = {}
    /\ visited' = {}
    /\ sresult' = <<>>
    /\ tickPulled' = {}
    /\ pushSeen' = {}
    /\ pushOld' = pushOld \cup pushSeen
    /\ UNCHANGED <<intents, rpc, rmsg, recvCount, handled, scur, spull, isEmpty,
                   pulled, pushOnlyOpened>>
    /\ UNCHANGED <<sessionVars, authVars, toolVars>>

\* process(): the iteration reaches an endpoint, splits its list into pull
\* and push and opens the stream with the pull list.  Without a client the
\* endpoint is passed over; a failing pull_replication ends process() with
\* the error, and `?` in the loop of run() ends the process task with it.
SessionOpen ==
    /\ spc = "process"
    /\ \E e \in {x \in Endpoints : intents[x].present} \ visited :
       \E how \in {"open", "noclient", "fail"} :
          /\ pushSeen' = pushSeen \cup
                 {<<e, d>> : d \in {x \in Elems(intents[e].list) : x.dir = "Push"}}
          /\ CASE how = "open" ->
                    /\ spc' = "insession"
                    /\ scur' = e
                    /\ spull' = PullIds(intents[e].list)
                    /\ pushOnlyOpened' =
                           \/ pushOnlyOpened
                           \/ \A d \in Elems(intents[e].list) :
                                  d.dir = "Push" /\ <<e, d>> \in pushOld
                    /\ UNCHANGED visited
               [] how = "noclient" ->
                    /\ visited' = visited \cup {e}
                    /\ UNCHANGED <<spc, scur, spull, pushOnlyOpened>>
               [] how = "fail" ->
                    /\ spc' = "dead"
                    /\ UNCHANGED <<visited, scur, spull, pushOnlyOpened>>
    /\ UNCHANGED <<intents, rpc, rmsg, recvCount, handled, tickKeys, tickHandled,
                   sresult, isEmpty, tickPulled, pulled, pushOld>>
    /\ UNCHANGED <<sessionVars, authVars, toolVars>>

\* process(): the session of the endpoint ends.  It fails (a status update
\* fails, the finalizer finds a count that differs), or the keys of
\* finished_objects are pushed to `result`, or nothing is pushed because
\* finished_objects is still shared with the driver task.
SessionEnd ==
    /\ spc = "insession"
    /\ \E how \in {"ok", "shared", "fail"} :
          CASE how = "ok" ->
                 \E F \in SUBSET spull :
                    /\ sresult' = Append(sresult, <<scur, F>>)
                    /\ tickPulled' = tickPulled \cup {<<scur, o>> : o \in F}
                    /\ pulled' = pulled \cup {<<scur, o>> : o \in F}
                    /\ visited' = visited \cup {scur}
                    /\ spc' = "process"
            [] how = "shared" ->
                    /\ visited' = visited \cup {scur}
                    /\ spc' = "process"
                    /\ UNCHANGED <<sresult, tickPulled, pulled>>
            [] how = "fail" ->
                    /\ spc' = "dead"
                    /\ UNCHANGED <<sresult, tickPulled, pulled, visited>>
    /\ scur' = ""
    /\ spull' = {}
    /\ UNCHANGED <<intents, rpc, rmsg, recvCount, handled, tickKeys, tickHandled,
                   isEmpty, pushSeen, pushOld, pushOnlyOpened>>
    /\ UNCHANGED <<sessionVars, authVars, toolVars>>

\* process() returns Ok(result) when the iteration has passed every entry;
\* an entry inserted during the iteration may or may not be passed.
ProcessReturn ==
    /\ spc = "process"
    /\ tickKeys \subseteq visited
    /\ spc' = IF sresult = <<>> THEN "sleep" ELSE "evict"
    /\ UNCHANGED <<intents, rpc, rmsg, recvCount, handled, tickKeys, tickHandled,
                   visited, scur, spull, sresult, isEmpty, tickPulled, pulled,
                   pushSeen, pushOld, pushOnlyOpened>>
    /\ UNCHANGED <<sessionVars, authVars, toolVars>>

\* Eviction: queue.alter(&id, ..filter(|dir| !objects.contains(dir))..).
EvictAlter ==
    /\ spc = "evict"
    /\ LET id == Head(sresult)[1]
           objects == {Pull(o) : o \in Head(sresult)[2]}
       IN intents' = IF intents[id].present
                     THEN [intents EXCEPT ![id].list =
                                              Filter(@, Directions \ objects)]
                     ELSE intents
    /\ spc' = "get"
    /\ UNCHANGED <<rpc, rmsg, recvCount, handled, tickKeys, tickHandled, visited, scur,
                   spull, sresult, isEmpty, tickPulled, pulled, pushSeen, pushOld,
                   pushOnlyOpened>>
    /\ UNCHANGED <<sessionVars, authVars, toolVars>>

\* Eviction: queue.get(&id) and entry.is_empty(); the loop goes on to the
\* next result when the list is not empty.
EvictGet ==
    /\ spc = "get"
    /\ LET id == Head(sresult)[1]
           empty == intents[id].present /\ intents[id].list = <<>>
       IN /\ isEmpty' = empty
          /\ IF empty
             THEN /\ spc' = "remove"
                  /\ UNCHANGED sresult
             ELSE /\ sresult' = Tail(sresult)
                  /\ spc' = IF Tail(sresult) = <<>> THEN "sleep" ELSE "evict"
    /\ UNCHANGED <<intents, rpc, rmsg, recvCount, handled, tickKeys, tickHandled,
                   visited, scur, spull, tickPulled, pulled, pushSeen, pushOld,
                   pushOnlyOpened>>
    /\ UNCHANGED <<sessionVars, authVars, toolVars>>

\* Eviction: queue.remove(&id).
EvictRemove ==
    /\ spc = "remove"
    /\ intents' = [intents EXCEPT ![Head(sresult)[1]] = NoKey]
    /\ isEmpty' = FALSE
    /\ sresult' = Tail(sresult)
    /\ spc' = IF Tail(sresult) = <<>> THEN "sleep" ELSE "evict"
    /\ UNCHANGED <<rpc, rmsg, recvCount, handled, tickKeys, tickHandled, visited, scur,
                   spull, tickPulled, pulled, pushSeen, pushOld, pushOnlyOpened>>
    /\ UNCHANGED <<sessionVars, authVars, toolVars>>

SchedNext ==
    \/ RecvMessage
    \/ RecvAlter
    \/ RecvInsert
    \/ Tick
    \/ SessionOpen
    \/ SessionEnd
    \/ ProcessReturn
    \/ EvictAlter
    \/ EvictGet
    \/ EvictRemove

\* The session variables when no session is looked at.
IdleSession ==
    /\ batch = {"o1"}
    /\ peerMode = "valid"
    /\ envOk
    /\ plan = [o \in Objs |-> 0]
    /\ cache = [o \in Objs |-> NoLocation]

\* run() on its own: the sessions are taken by their outcome.
SchedInit == Init /\ IdleSession

SchedSpec == SchedInit /\ [][SchedNext]_vars

\* =================================================================== auth
\* Largest time stamp of the model (exp of a token, the clock).
MaxTime == 2
Times == 0..MaxTime

\* ULIDs: self_id of this proxy and another one; "zz" stands for a string
\* that DieselUlid::from_str rejects.
self_id == "U1"
Ulids == {"U1", "U2"}
IsUlid(x) == x \in Ulids

\* ------------------------------------------------------------ intent codec
\* The two modules that define Action and Intent.
Modules == {"auth", "caching"}

\* `impl From<u8> for Action`: the actions by byte value, from 0.
ActionTable(m) ==
    IF m = "auth"
    THEN <<"All", "CreateSecrets", "Impersonate", "FetchInfo", "DpExchange">>
    ELSE <<"All", "Notifications", "CreateSecrets">>

Actions(m) == {ActionTable(m)[i] : i \in 1..Len(ActionTable(m))}

\* `action as u8`
ActionByte(m, a) == CHOOSE b \in 0..(Len(ActionTable(m)) - 1) : ActionTable(m)[b + 1] = a

Intents(m) == [target : Ulids, action : Actions(m)]

\* Decimal text of a byte (`{:?}` of a u8).
Decimal == <<"0", "1", "2", "3", "4", "5">>
ToDecimal(b) == Decimal[b + 1]

\* u8::from_str: the value of a field, -1 when it is no u8.  Leading
\* zeros are accepted.
U8FromStr(x) ==
    IF \E b \in 0..(Len(Decimal) - 1) : Decimal[b + 1] = x
    THEN CHOOSE b \in 0..(Len(Decimal) - 1) : Decimal[b + 1] = x
    ELSE IF x = "01" THEN 1 ELSE -1

\* An intent string is modelled by its fields between the '_' separators
\* (what split('_') yields, never an empty vector).
TargetFields == {"U1", "U2", "zz"}
ActionFields == {"0", "1", "2", "3", "4", "5", "01", "x"}
IntentStrings ==
    {<<t>> : t \in {"U1", "zz", ""}} \cup
    {<<t, a>> : t \in TargetFields, a \in ActionFields}

\* Intent::serialize: "{target}_{action as u8}".
Serialize(m, i) == <<i.target, ToDecimal(ActionByte(m, i.action))>>

\* Intent::deserialize.  The target is parsed first; split[1] of a string
\* without separator is an index out of bounds; From<u8> panics on a byte
\* without action.
Deserialize(m, s) ==
    IF ~IsUlid(s[1]) THEN [kind |-> "Err", msg |-> "Invalid UUID"]
    ELSE IF Len(s) < 2 THEN [kind |-> "Panic", msg |-> "index out of bounds"]
    ELSE IF U8FromStr(s[2]) < 0 THEN [kind |-> "Err", msg |-> "Invalid Action"]
    ELSE IF U8FromStr(s[2]) >= Len(ActionTable(m))
         THEN [kind |-> "Panic", msg |-> "Invalid action"]
    ELSE [kind |-> "Ok",
          intent |-> [target |-> s[1],
                      action |-> ActionTable(m)[U8FromStr(s[2]) + 1]]]

\* One use of the codec of a module: a string is decoded (and encoded
\* again when that succeeded) and an intent is encoded and decoded again.
IntentCodec ==
    /\ aop = "none"
    /\ \E m \in Modules :
       \E s \in IntentStrings, i \in Intents(m) :
          /\ ain' = [module |-> m, string |-> s, intent |-> i]
          /\ aout' = [de |-> Deserialize(m, s),
                      reser |-> IF Deserialize(m, s).kind = "Ok"
                                THEN Serialize(m, Deserialize(m, s).intent)
                                ELSE <<>>,
                      ser |-> Serialize(m, i),
                      deser |-> Deserialize(m, Serialize(m, i))]
    /\ aop' = "codec"
    /\ UNCHANGED <<sessionVars, schedVars, toolVars>>

\* ------------------------------------------------------ check_permissions
\* A bearer token: the kid of its header, the serial of the key that
\* signed it, and its claims (`it` as the intent string, if any).
Kids == {"none", "x", "1", "2"}
Serials == {1, 2}
Tokens ==
    [kid : Kids, signer : Serials, exp : Times, aud : {"aruna", "proxy", "other"},
     sub : {"U1", "zz"}, tid : {"none", "T1"},
     it : {<<>>} \cup {<<s>> : s \in IntentStrings}]

\* i32::from_str(&kid): the serial, 0 when the kid is no number.
KidSerial(k) == IF k = "1" THEN 1 ELSE IF k = "2" THEN 2 ELSE 0

\* The expiry validation of decode(): a token is expired when exp lies
\* before the clock by more than the leeway of the Validation.
ExpValid(exp, now, leeway) == exp >= now - leeway

\* Variant: any audience of the token taxonomy.
AudienceOkAny(aud) == aud \in {"aruna", "proxy"}

\* validation.set_audience(&["proxy"])
AudienceOk(aud) == aud = "proxy"

\* Variant: the target of the intent is not looked at.
TargetOkAny(target) == TRUE

\* `it.target == self.self_id`
TargetOk(target) == target = self_id

Err(msg) == [kind |-> "Err", msg |-> msg, sub |-> "", tid |-> "none"]
Granted(sub, tid) ==
    IF IsUlid(sub) THEN [kind |-> "Ok", msg |-> "", sub |-> sub, tid |-> tid]
    ELSE Err("invalid sub")

\* The match on the intent of the decoded claims.
IntentDecision(t, intent) ==
    CASE intent.action = "All" -> Granted(t.sub, t.tid)
      [] intent.action = "CreateSecrets" ->
            IF TargetOk(intent.target) THEN Granted(t.sub, t.tid)
            ELSE Err("Token is not valid for this Dataproxy")
      [] intent.action = "DpExchange" ->
            IF TargetOk(intent.target) THEN Granted(t.sub, "none")
            ELSE Err("Token is not valid for this Dataproxy")
      [] OTHER -> Err("Action not allowed for Dataproxy")

\* AuthHandler::check_permissions with extract_claims: header, key lookup,
\* signature, claims (the intent is decoded with the claims), validation
\* of expiry and audience, then the decision on the intent.
CheckPermissionsResult(t, known, now, leeway) ==
    IF t.kid = "none" THEN Err("Unspecified kid")
    ELSE IF KidSerial(t.kid) = 0 THEN Err("invalid kid")
    ELSE IF KidSerial(t.kid) \notin known THEN Err("unknown key")
    ELSE IF t.signer # KidSerial(t.kid) THEN Err("InvalidSignature")
    ELSE IF t.it # <<>> /\ Deserialize("auth", t.it[1]).kind = "Panic"
         THEN [kind |-> "Panic", msg |-> Deserialize("auth", t.it[1]).msg,
               sub |-> "", tid |-> "none"]
    ELSE IF t.it # <<>> /\ Deserialize("auth", t.it[1]).kind = "Err"
         THEN Err(Deserialize("auth", t.it[1]).msg)
    ELSE IF ~ExpValid(t.exp, now, leeway) THEN Err("ExpiredSignature")
    ELSE IF ~AudienceOk(t.aud) THEN Err("InvalidAudience")
    ELSE IF t.it = <<>> THEN Granted(t.sub, t.tid)
    ELSE IntentDecision(t, Deserialize("auth", t.it[1]).intent)

\* One call of check_permissions: any token, the serials the cache holds a
\* public key for, the clock, and the leeway the Validation was built with.
CheckPermissions ==
    /\ aop = "none"
    /\ \E t \in Tokens, known \in {{1}, {1, 2}}, now \in Times, leeway \in {0, 1} :
          /\ ain' = [token |-> t, known |-> known, now |-> now, leeway |-> leeway]
          /\ aout' = CheckPermissionsResult(t, known, now, leeway)
    /\ aop' = "check_permissions"
    /\ UNCHANGED <<sessionVars, schedVars, toolVars>>

\* ------------------------------------------------------------ check_access
Methods == {"GET", "HEAD", "PUT", "POST", "DELETE"}

\* helpers::is_method_read
IsMethodRead(method) == method \in {"GET", "HEAD"}

\* The cache of the model: access keys AK1 (user U1) and AK2 (user U2) are
\* known, user attributes exist for U1 only; AK3 is not known.
Creds == {"none", "AK1", "AK2", "AK3"}
KeyPerms == [AK1 |-> "U1", AK2 |-> "U2"]
UserAttributes == {"U1"}

\* Variant: the user attributes are not asked for.
ExtractAccessKeyPermsKeyOnly(creds) ==
    IF creds \in DOMAIN KeyPerms
    THEN <<[user_id |-> KeyPerms[creds], access_key |-> creds]>>
    ELSE <<>>

\* extract_access_key_perms: the key permissions of the credentials, if
\* credentials are given, the key is in the cache and its user has
\* attributes there.
ExtractAccessKeyPerms(creds) ==
    IF creds \in DOMAIN KeyPerms /\ KeyPerms[creds] \in UserAttributes
    THEN <<[user_id |-> KeyPerms[creds], access_key |-> creds]>>
    ELSE <<>>

\* CheckAccessResult and S3Error, with the lookups the handler made.
NoStates == "default"
Allowed(states, user_id, token_id, loc, touched) ==
    [kind |-> "Ok", code |-> "", resource_states |-> states, user_id |-> user_id,
     token_id |-> token_id, location |-> loc, touched |-> touched]
S3Error(code, touched) ==
    [kind |-> "Err", code |-> code, resource_states |-> NoStates, user_id |-> "none",
     token_id |-> "none", location |-> "none", touched |-> touched]
Todo(touched) ==
    [kind |-> "Panic", code |-> "not yet implemented", resource_states |-> NoStates,
     user_id |-> "none", token_id |-> "none", location |-> "none",
     touched |-> touched]

\* handle_root: the access key of the credentials, then the root rules.
HandleRootResult(creds, rulesAllow) ==
    LET perms == ExtractAccessKeyPerms(creds) IN
    IF perms = <<>> THEN S3Error("AccessDenied", {"creds"})
    ELSE IF ~rulesAllow THEN S3Error("AccessDenied", {"creds", "rules"})
    ELSE Allowed(NoStates, perms[1].user_id, perms[1].access_key, "none",
                 {"creds", "rules"})

HandleRoot ==
    /\ aop = "none"
    /\ \E method \in Methods, creds \in Creds, rulesAllow \in BOOLEAN :
          /\ ain' = [method |-> method, creds |-> creds, rulesAllow |-> rulesAllow]
          /\ aout' = HandleRootResult(creds, rulesAllow)
    /\ aop' = "handle_root"
    /\ UNCHANGED <<sessionVars, schedVars, toolVars>>

Buckets == {"objects", "bundles", "b1"}

\* What the path resolves to in the cache, as far as handle_object asks:
\* how prefix_into_resource_states ends, slots are missing, the object is
\* partially synced, a project and an object are among the resources, the
\* object is Public, the key has the permission for the method, the object
\* has a location.  The errors of the helpers of ResourceStates carry the
\* name of the helper.
Resolutions ==
    [resolves : {"Ok", "InternalError", "NoSuchKey"}, missing : BOOLEAN, partial : BOOLEAN, project : BOOLEAN,
     object : BOOLEAN, public : BOOLEAN, permitted : BOOLEAN, located : BOOLEAN]

\* Variant: only "objects" is a special bucket.
SpecialBucketObjectsOnly(bucket) == bucket = "objects"

\* The bucket names handle_object matches on.
SpecialBucket(bucket) == bucket \in {"objects", "bundles"}

\* Variant: no location is asked for.
GetLocationNever(r) == "none"

\* The location of the object slot, if the object is set and the cache has
\* a location for it.
GetLocation(r) == IF r.object /\ r.located THEN "location" ELSE "none"

\* handle_object behind the special buckets: resolve the prefixes, refuse
\* missing slots on reads, refuse partially synced objects, take the
\* project headers, check the permission of the key unless the object is
\* Public, evaluate the object rules, attach the location.
HandleResourceResult(method, creds, r, rulesAllow) ==
    LET perms == ExtractAccessKeyPerms(creds)
        checked == IF perms # <<>> /\ ~r.public THEN {"permissions"} ELSE {}
    IN
    IF r.resolves # "Ok" THEN S3Error(r.resolves, {"resources"})
    ELSE IF IsMethodRead(method) /\ r.missing THEN S3Error("NoSuchKey", {"resources"})
    ELSE IF r.partial THEN S3Error("fail_partial_sync", {"resources"})
    ELSE IF ~r.project THEN S3Error("require_project", {"resources"})
    ELSE IF perms # <<>> /\ ~r.object
         THEN S3Error("require_object", {"resources", "creds"})
    ELSE IF perms # <<>> /\ ~r.public /\ ~r.permitted
         THEN S3Error("check_permissions", {"resources", "creds", "permissions"})
    ELSE IF ~rulesAllow
         THEN S3Error("AccessDenied", {"resources", "creds", "rules"} \cup checked)
    ELSE Allowed("resolved",
                 IF perms # <<>> THEN perms[1].user_id ELSE "none",
                 IF perms # <<>> THEN perms[1].access_key ELSE "none",
                 GetLocation(r),
                 {"resources", "creds", "rules"} \cup checked)

\* handle_object: "objects" and "bundles" are read-only and their read
\* handlers are todo!(); every other bucket is resolved in the cache.
HandleObjectResult(bucket, method, creds, r, rulesAllow) ==
    IF SpecialBucket(bucket)
    THEN IF ~IsMethodRead(method) THEN S3Error("MethodNotAllowed", {})
         ELSE Todo({})
    ELSE HandleResourceResult(method, creds, r, rulesAllow)

HandleObject ==
    /\ aop = "none"
    /\ \E bucket \in Buckets, method \in Methods, creds \in Creds,
          r \in Resolutions, rulesAllow \in BOOLEAN :
          /\ ain' = [bucket |-> bucket, method |-> method, creds |-> creds,
                     resolution |-> r, rulesAllow |-> rulesAllow]
          /\ aout' = HandleObjectResult(bucket, method, creds, r, rulesAllow)
    /\ aop' = "handle_object"
    /\ UNCHANGED <<sessionVars, schedVars, toolVars>>

\* ------------------------------------------- prefix_into_resource_states
\* Bound: the longest prefix list resolved as a pure function.
MaxPrefixes == 3

\* What cache.get_full_resource_by_path answers for a prefix: nothing, or a
\* resource of an object type; "Other" is every type behind the `_` arm.
SlotTypes == {"Project", "Collection", "Dataset", "Object"}
Lookups == {"None", "Other"} \cup SlotTypes

\* ResourceStates::default(): no slot is set, nothing is missing.  A set slot
\* holds the position (from 1) of the prefix that set it.
DefaultStates ==
    [Project |-> 0, Collection |-> 0, Dataset |-> 0, Object |-> 0, missing |-> <<>>]

\* ResourceStates::set_missing(idx, len, name): a missing slot names an
\* index below the total.
SetMissing(states, idx, len, name) ==
    IF idx < len
    THEN [kind |-> "Ok",
          states |-> [states EXCEPT !.missing = Append(@, <<idx, len, name>>)]]
    ELSE [kind |-> "Err", states |-> states]

\* set_project, set_collection, set_dataset, set_object
SetSlot(states, type, pos) == [states EXCEPT ![type] = pos]

\* The slots of the resource chain that are set.
Chain(states) == {t \in SlotTypes : states[t] # 0}

\* ResourceStates::validate(): a set slot needs the project, the project is
\* the first prefix, the slots follow the chain project, collection,
\* dataset, object, and nothing was found below a missing prefix.
Validate(states) ==
    /\ Chain(states) # {} => states.Project = 1
    /\ \A a, b \in {"Collection", "Dataset", "Object"} :
          (a \in Chain(states) /\ b \in Chain(states) /\ states[a] < states[b]) =>
             <<a, b>> \in {<<"Collection", "Dataset">>, <<"Collection", "Object">>,
                           <<"Dataset", "Object">>}
    /\ \A i \in 1..Len(states.missing) : \A t \in Chain(states) :
          states[t] < states.missing[i][1] + 1

Resolved(states) == [kind |-> "Ok", code |-> "", states |-> states]

\* Variant: every failure of the resolution is an InternalError.
UnresolvedInternal(code) ==
    [kind |-> "Err", code |-> "InternalError", states |-> DefaultStates]

Unresolved(code) == [kind |-> "Err", code |-> code, states |-> DefaultStates]

\* The loop of prefix_into_resource_states from prefix idx (from 0) on, and
\* validate() behind it.
RECURSIVE ResolveFrom(_, _, _)
ResolveFrom(prefixes, idx, states) ==
    IF idx = Len(prefixes)
    THEN IF Validate(states) THEN Resolved(states) ELSE Unresolved("InternalError")
    ELSE LET p == prefixes[idx + 1] IN
         IF p.found = "None"
         THEN LET m == SetMissing(states, idx, Len(prefixes), p.name) IN
              IF m.kind = "Err" THEN Unresolved("InternalError")
              ELSE ResolveFrom(prefixes, idx + 1, m.states)
         ELSE IF p.found \in SlotTypes
         THEN ResolveFrom(prefixes, idx + 1, SetSlot(states, p.found, idx + 1))
         ELSE Unresolved("NoSuchKey")

PrefixIntoResourceStates(prefixes) == ResolveFrom(prefixes, 0, DefaultStates)

\* The prefix lists of a path: the bucket, then the segments of the key.
PathNames == <<"b1", "k1", "k2", "k1">>
PrefixLists ==
    UNION {{[i \in 1..n |-> [found |-> f[i], name |-> PathNames[i]]] :
               f \in [1..n -> Lookups]} : n \in 1..MaxPrefixes}

ResolvePrefixes ==
    /\ aop = "none"
    /\ \E prefixes \in PrefixLists :
          /\ ain' = [prefixes |-> prefixes]
          /\ aout' = PrefixIntoResourceStates(prefixes)
    /\ aop' = "resolve"
    /\ UNCHANGED <<sessionVars, schedVars, toolVars>>

\* ----------------------------------------------------------- handle_bucket
\* ResourceStates::check_permissions: the key holds the required level on a
\* resource of the chain; held are the slots on which it holds that level.
ChainPermitted(states, held) == Chain(states) \cap held # {}

\* The S3 code behind the errors of the helpers of ResourceStates.
S3Code(code) ==
    CASE code = "check_permissions" -> "AccessDenied"
      [] code = "fail_partial_sync" -> "ServiceUnavailable"
      [] code = "require_project" -> "InternalError"
      [] code = "require_object" -> "NoSuchKey"
      [] OTHER -> code

\* handle_bucket: the access key, the resource states of the prefix
\* (bucket, bucket), the permission of the key for the method, the project,
\* the object rules.
HandleBucketResult(bucket, found, creds, held, rulesAllow) ==
    LET perms == ExtractAccessKeyPerms(creds)
        r == PrefixIntoResourceStates(<<[found |-> found, name |-> bucket]>>)
    IN
    IF perms = <<>> THEN S3Error("AccessDenied", {"creds"})
    ELSE IF r.kind = "Err" THEN S3Error(r.code, {"creds", "resources"})
    ELSE IF ~ChainPermitted(r.states, held)
         THEN S3Error("check_permissions", {"creds", "resources", "permissions"})
    ELSE IF r.states.Project = 0
         THEN S3Error("require_project", {"creds", "resources", "permissions"})
    ELSE IF ~rulesAllow
         THEN S3Error("AccessDenied", {"creds", "resources", "permissions", "rules"})
    ELSE Allowed(r.states, perms[1].user_id, perms[1].access_key, "none",
                 {"creds", "resources", "permissions", "rules"})

HandleBucket ==
    /\ aop = "none"
    /\ \E bucket \in {"unknown", "b1"}, found \in Lookups, method \in Methods,
          creds \in Creds, held \in SUBSET {"Project", "Object"},
          rulesAllow \in BOOLEAN :
          /\ ain' = [bucket |-> bucket, found |-> found, method |-> method,
                     creds |-> creds, held |-> held, rulesAllow |-> rulesAllow]
          /\ aout' = HandleBucketResult(bucket, found, creds, held, rulesAllow)
    /\ aop' = "handle_bucket"
    /\ UNCHANGED <<sessionVars, schedVars, toolVars>>

\* ------------------------------------------------------------ sign_token
\* The serial of the encoding key of a proxy, and `format!("{}", serial)`.
KeySerial(p) == IF p = "U1" THEN 1 ELSE 2
FormatSerial(n) == IF n = 1 THEN "1" ELSE "2"

\* The lifetime of a minted token in steps of the model clock: 15 minutes
\* (one step) for exchange and impersonation tokens, 10 years (more than
\* the clock of the model covers) for the notification token.
Lifetime(kind) == IF kind = "notification" THEN MaxTime + 1 ELSE 1

\* sign_token: the header carries the serial of the proxy's encoding key
\* and the token is signed with that key; the intent is serialized with
\* the claims.
SignToken(p, claims) ==
    [kid |-> FormatSerial(KeySerial(p)), signer |-> KeySerial(p),
     exp |-> claims.exp, aud |-> claims.aud, sub |-> claims.sub,
     tid |-> claims.tid, it |-> <<Serialize("auth", claims.it)>>]

\* sign_impersonating_token of proxy p
SignImpersonatingToken(p, user_id, tid, now) ==
    SignToken(p, [exp |-> now + Lifetime("impersonating"), aud |-> "aruna",
                  sub |-> user_id, tid |-> tid,
                  it |-> [target |-> p, action |-> "Impersonate"]])

\* sign_notification_token of proxy p
SignNotificationToken(p, now) ==
    SignToken(p, [exp |-> now + Lifetime("notification"), aud |-> "aruna",
                  sub |-> p, tid |-> "none",
                  it |-> [target |-> p, action |-> "FetchInfo"]])

\* Variant: the exchange token names the minting proxy as its target.
SignDataproxyTokenSelf(p, target_endpoint, now) ==
    SignToken(p, [exp |-> now + Lifetime("dataproxy"), aud |-> "proxy",
                  sub |-> p, tid |-> "none",
                  it |-> [target |-> p, action |-> "DpExchange"]])

\* sign_dataproxy_token of proxy p
SignDataproxyToken(p, target_endpoint, now) ==
    SignToken(p, [exp |-> now + Lifetime("dataproxy"), aud |-> "proxy",
                  sub |-> p, tid |-> "none",
                  it |-> [target |-> target_endpoint, action |-> "DpExchange"]])

MintKinds == {"impersonating", "notification", "dataproxy"}

\* A proxy mints a token and the token is presented to check_permissions
\* of this proxy (self_id) at the same time or later; the minting proxy is
\* this proxy or the other one, the target of an exchange token likewise.
MintedTokenCheck ==
    /\ aop = "none"
    /\ \E p \in Ulids, kind \in MintKinds, target \in Ulids,
          user \in {"U1", "zz"}, tid \in {"none", "T1"},
          minted \in Times, known \in {{1}, {1, 2}}, leeway \in {0, 1} :
       \E now \in {x \in Times : x >= minted} :
          LET t == CASE kind = "impersonating" ->
                          SignImpersonatingToken(p, user, tid, minted)
                     [] kind = "notification" -> SignNotificationToken(p, minted)
                     [] OTHER -> SignDataproxyToken(p, target, minted)
          IN
          /\ ain' = [minter |-> p, kind |-> kind, target |-> target, token |-> t,
                     known |-> known, now |-> now, leeway |-> leeway]
          /\ aout' = CheckPermissionsResult(t, known, now, leeway)
    /\ aop' = "minted"
    /\ UNCHANGED <<sessionVars, schedVars, toolVars>>

AuthNext ==
    \/ IntentCodec
    \/ CheckPermissions
    \/ HandleRoot
    \/ HandleObject
    \/ HandleBucket
    \/ ResolvePrefixes
    \/ MintedTokenCheck

\* The AuthHandler on its own.
AuthInit == Init /\ IdleSession

AuthSpec == AuthInit /\ [][AuthNext]_vars

\* ------------------------------------------------------- PresignHandler
\* Strings are sequences of text pieces no one of which is a prefix of
\* another, so two strings are equal exactly if the sequences are.
\* Bound: the longest salt parameter a verify call is given.
MaxSalt == 3

\* HMAC_SIGN_KEY
Secret == "test"

\* url.path() of the URLs signed and the paths verified against; '|' is
\* not percent-encoded in a URL path.
Paths == {<<"/a">>, <<"/b">>, <<"/a", "/b">>, <<"/a", "|", "/b">>}

SignTimes == {0, 1}
Durations == {1, 2}

\* DateTime<Utc>::to_rfc3339 of the expiry instant.
ToRfc3339(t) == <<<<"t0">>, <<"t1">>, <<"t2">>, <<"t3">>>>[t + 1]
Expiries == {ToRfc3339(t) : t \in 0..3}

\* base64::encode of the 32 random bytes of the salt.
Salts == {<<"s1">>, <<"s2">>}

\* The salt parameters a request can carry: any text.
RECURSIVE Texts(_, _)
Texts(alphabet, n) ==
    IF n = 0 THEN {<<>>}
    ELSE LET shorter == Texts(alphabet, n - 1) IN
         shorter \cup {Append(t, a) : t \in shorter, a \in alphabet}
SaltParams == Texts({"s1", "s2", "|", "/a"}, MaxSalt)

\* HMAC-SHA256 of a message under a key, base64::encode of it and
\* base64::decode: no two messages have the same MAC, and decode undoes
\* encode and fails on other text.
HmacSha256(key, msg) == [mac |-> msg, key |-> key]
Base64Encode(bytes) == [b64 |-> bytes]
IsBase64(text) == "b64" \in DOMAIN text
Base64Decode(text) == text.b64
NotBase64 == [raw |-> "!"]

\* query_signature_string: expiry, salt and path joined with "|".
QuerySignatureString(params, path) ==
    params.expiry \o <<"|">> \o params.salt \o <<"|">> \o path

SignedParamsQuery(signature, salt, expiry) ==
    [signature |-> signature, salt |-> salt, expiry |-> expiry]

\* sign_url: the expiry is now + duration, the salt is random, the signature
\* is the MAC of the signature string of the URL's path; the three are
\* appended to the query of the URL.
SignUrlResult(now, duration, salt, path) ==
    LET expiry == ToRfc3339(now + duration)
        query_signature == QuerySignatureString(
                               SignedParamsQuery(<<>>, salt, expiry), path)
        signature == Base64Encode(HmacSha256(Secret, query_signature))
    IN  [path |-> path,
         query |-> <<<<"salt", salt>>, <<"expiry", expiry>>,
                     <<"signature", signature>>>>]

\* The value of a query pair of the URL.
QueryValue(url, key) ==
    LET i == CHOOSE i \in 1..Len(url.query) : url.query[i][1] = key IN url.query[i][2]

\* verify_sign_url: the signature parameter is decoded and compared with
\* the MAC of the signature string of the parameters and the path.
VerifySignUrlResult(params, path) ==
    IF ~IsBase64(params.signature) THEN [kind |-> "Err", valid |-> FALSE]
    ELSE [kind |-> "Ok",
          valid |-> Base64Decode(params.signature)
                       = HmacSha256(Secret, QuerySignatureString(params, path))]

SignUrl ==
    /\ signed = <<>>
    /\ \E now \in SignTimes, duration \in Durations, salt \in Salts, path \in Paths :
          signed' = SignUrlResult(now, duration, salt, path)
    /\ UNCHANGED <<verified, backendVars, rangeVars>>
    /\ UNCHANGED <<sessionVars, schedVars, authVars>>

\* A request for a path with salt, expiry and signature parameters; the
\* signature is the one of the signed URL or no base64 text.
VerifySignUrl ==
    /\ signed # <<>>
    /\ verified = <<>>
    /\ \E salt \in SaltParams, expiry \in Expiries, path \in Paths,
          signature \in {QueryValue(signed, "signature"), NotBase64} :
          LET params == SignedParamsQuery(signature, salt, expiry) IN
          verified' = [params |-> params, path |-> path,
                       out |-> VerifySignUrlResult(params, path)]
    /\ UNCHANGED <<signed, backendVars, rangeVars>>
    /\ UNCHANGED <<sessionVars, schedVars, authVars>>

PresignNext == SignUrl \/ VerifySignUrl

\* The PresignHandler, the S3 backend and the range calculation on their own.
ToolInit == Init /\ IdleSession

PresignSpec == ToolInit /\ [][PresignNext]_vars

\* ------------------------------------------------------------- S3Backend
\* Bound: the calls one caller makes.
MaxCalls == 2

BucketNames == {"b1", "b2"}
BackendOps == {"create_bucket", "put_object", "init_multipart_upload"}

\* What the S3 server answers to CreateBucket for a bucket the caller
\* already owns: success, or the error BucketAlreadyOwnedByYou.
CreateExisting == {"Ok", "BucketAlreadyOwnedByYou"}

\* The call returns: its result is recorded and the caller is idle again.
Returns(c, res) ==
    /\ cres' = [cres EXCEPT ![c] = Append(@, [op |-> cop[c].op,
                                               bucket |-> cop[c].bucket,
                                               result |-> res])]
    /\ cpc' = [cpc EXCEPT ![c] = "idle"]
    /\ cop' = [cop EXCEPT ![c] = NoCall]

\* check_and_create_bucket returned Ok: create_bucket returns it,
\* put_object and init_multipart_upload go on to their upload request.
Checked(c) ==
    IF cop[c].op = "create_bucket" THEN Returns(c, "Ok")
    ELSE /\ cpc' = [cpc EXCEPT ![c] = "upload"]
         /\ UNCHANGED <<cop, cres>>

\* create_bucket, put_object or init_multipart_upload is called.
BackendCall(c) ==
    /\ cpc[c] = "idle"
    /\ Len(cres[c]) < MaxCalls
    /\ \E op \in BackendOps, bucket \in BucketNames :
          cop' = [cop EXCEPT ![c] = [op |-> op, bucket |-> bucket]]
    /\ cpc' = [cpc EXCEPT ![c] = "check"]
    /\ UNCHANGED <<buckets, cres, presignVars, rangeVars>>
    /\ UNCHANGED <<sessionVars, schedVars, authVars>>

\* check_and_create_bucket: get_bucket_location answers Ok for a bucket the
\* server holds and an error otherwise.
GetBucketLocation(c) ==
    /\ cpc[c] = "check"
    /\ IF cop[c].bucket \in buckets
       THEN Checked(c)
       ELSE /\ cpc' = [cpc EXCEPT ![c] = "create"]
            /\ UNCHANGED <<cop, cres>>
    /\ UNCHANGED <<buckets, presignVars, rangeVars>>
    /\ UNCHANGED <<sessionVars, schedVars, authVars>>

\* check_and_create_bucket after the error: create_bucket at the server,
\* whose error is returned.
CreateBucket(c) ==
    /\ cpc[c] = "create"
    /\ IF cop[c].bucket \notin buckets
       THEN /\ buckets' = buckets \cup {cop[c].bucket}
            /\ Checked(c)
       ELSE /\ UNCHANGED buckets
            /\ \E answer \in CreateExisting :
                  IF answer = "Ok" THEN Checked(c) ELSE Returns(c, answer)
    /\ UNCHANGED <<presignVars, rangeVars>>
    /\ UNCHANGED <<sessionVars, schedVars, authVars>>

\* The put_object or create_multipart_upload request behind the check.
Upload(c) ==
    /\ cpc[c] = "upload"
    /\ Returns(c, "Ok")
    /\ UNCHANGED <<buckets, presignVars, rangeVars>>
    /\ UNCHANGED <<sessionVars, schedVars, authVars>>

BackendNext ==
    \E c \in Callers :
        \/ BackendCall(c)
        \/ GetBucketLocation(c)
        \/ CreateBucket(c)
        \/ Upload(c)

BackendSpec == ToolInit /\ [][BackendNext]_vars

\* ----------------------------------------------------------------- ranges
\* Bound: the largest content length.
MaxLen == 4

\* u64 and i64 of the model: Word stands for 2^64.
Word == 2^6

Builds == {"debug", "release"}

\* The offsets a Range header names: up to one past the content length.
Offsets == 0..(MaxLen + 1)

\* s3s::dto::Range: Int{first, last?} and Suffix{length}; an absent last is
\* <<>>, a present one is not below first.
S3Ranges ==
    {[kind |-> "Int", first |-> f, last |-> <<>>, length |-> 0] : f \in Offsets}
    \cup {[kind |-> "Int", first |-> p[1], last |-> <<p[2]>>, length |-> 0] :
             p \in {q \in Offsets \X Offsets : q[2] >= q[1]}}
    \cup {[kind |-> "Suffix", first |-> 0, last |-> <<>>, length |-> n] : n \in Offsets}

ArunaRange(from, to) == [kind |-> "Ok", from |-> from, to |-> to, len |-> 0]
Overflow == [kind |-> "Panic", from |-> 0, to |-> 0, len |-> 0]

\* a - b on u64: a build with overflow checks panics below zero, one without
\* wraps around.
SubU64(a, b, build) ==
    IF a >= b THEN <<a - b>>
    ELSE IF build = "debug" THEN <<>> ELSE <<(a - b) % Word>>

\* a + 1 on u64
IncU64(a, build) ==
    IF a + 1 < Word THEN <<a + 1>>
    ELSE IF build = "debug" THEN <<>> ELSE <<0>>

\* u64 as i64
AsI64(v) == IF v >= Word \div 2 THEN v - Word ELSE v

\* aruna_range_from_s3range
ArunaRangeFromS3Range(r, content_length, build) ==
    IF r.kind = "Int"
    THEN IF r.last # <<>> THEN ArunaRange(r.first, r.last[1])
         ELSE ArunaRange(r.first, content_length)
    ELSE LET from == SubU64(content_length, r.length, build) IN
         IF from = <<>> THEN Overflow ELSE ArunaRange(from[1], content_length)

\* calculate_ranges without footer: the range of the S3 range, its end
\* moved by one.
CalculateRangesResult(r, content_length, build) ==
    LET ar_range == ArunaRangeFromS3Range(r, content_length, build) IN
    IF ar_range.kind = "Panic" THEN Overflow
    ELSE LET to == IncU64(ar_range.to, build) IN
         IF to = <<>> THEN Overflow ELSE ArunaRange(ar_range.from, to[1])

\* calculate_content_length_from_range
CalculateContentLengthFromRange(range, build) ==
    LET d == SubU64(range.to, range.from, build) IN
    IF d = <<>> THEN Overflow ELSE [range EXCEPT !.len = AsI64(d[1])]

\* A ranged request: calculate_ranges, then the content length of the range
\* it returned.
CalculateRanges ==
    /\ rin = <<>>
    /\ \E r \in S3Ranges, content_length \in 0..MaxLen, build \in Builds :
          /\ rin' = [range |-> r, content_length |-> content_length, build |-> build]
          /\ rout' = LET range == CalculateRangesResult(r, content_length, build) IN
                     IF range.kind = "Panic" THEN Overflow
                     ELSE CalculateContentLengthFromRange(range, build)
    /\ UNCHANGED <<presignVars, backendVars>>
    /\ UNCHANGED <<sessionVars, schedVars, authVars>>

RangeSpec == ToolInit /\ [][CalculateRanges]_vars

\* ================================================================ claims

\* The chunk indices of the chunks forwarded to the writer.
WrittenIdx == [i \in 1..Len(written) |-> written[i].chunk_idx]

\* C1: the chunk indices forwarded to the backend writer for an object
\* with N advertised chunks are a prefix of 0, 1, ..., N-1, without gap,
\* repeat or reorder, whatever chunks were received.
C1_ForwardedIsPrefix ==
    vpc # "idle" =>
        /\ Len(written) <= maxChunks
        /\ \A i \in 1..Len(written) : written[i].chunk_idx = i - 1

\* C2: every chunk forwarded to the backend writer carries the checksum
\* hex(MD5(data)) of its payload.
C2_ForwardedChecksumOk ==
    \A i \in 1..Len(written) : Md5Hex(written[i].data) = written[i].checksum
\* A chunk was forwarded and the next one, in turn but with a wrong
\* checksum, was turned down.
C2_Witness ==
    /\ vpc = "run"
    /\ Len(written) = 1
    /\ expected = 2
    /\ retry = 1
    /\ lastRetry = <<RetryChunk(cur, 1)>>

\* The ledger snapshot holds an Info(o, N) marker and exactly N distinct
\* Chunk(o, *) markers.
Complete(s, o) ==
    \E m \in s :
        /\ m.kind = "Info"
        /\ m.id = o
        /\ m.n = Cardinality({c \in s : c.kind = "Chunk" /\ c.id = o})

\* The session sent FinishMessage and returned its objects to the scheduler.
ReturnedAfterFinish == main = "returned" /\ FinishMessage \in sent

\* C3 as stated: for every object returned to the scheduler after
\* FinishMessage, the snapshot of the finalizer holds Info(O, N) and
\* exactly N distinct Chunk(O, *) markers.
C3_ReturnedComplete ==
    ReturnedAfterFinish => \A o \in result[1] : Complete(fsnap, o)

\* C3, amended: the same for every returned object that is not recorded as
\* already synced in finished_objects (the driver found no location for it).
C3_PulledComplete ==
    ReturnedAfterFinish =>
        \A o \in result[1] : finished[o] = "false" => Complete(fsnap, o)
\* A session returns one object it pulled and one that was already synced.
C3_Witness ==
    /\ ReturnedAfterFinish
    /\ \E o \in result[1] : finished[o] = "false" /\ plan[o] = 2
    /\ \E o \in result[1] : finished[o] = "true"

\* C4: single-object happy path.  When the pull list is one object that is
\* in the cache without a location and the peer sends ObjectInfo(O, N >= 1)
\* and then Chunk(O, 0..N-1) in order with correct checksums, then
\* eventually the ledger holds Info(O, N) and Chunk(O, 0..N-1),
\* FinishMessage was sent, the cache holds a location for O and status
\* Finished was reported for O.
HappyDone(o) ==
    /\ Info(o, plan[o]) \in ledger
    /\ \A k \in 0..(plan[o] - 1) : ChunkMark(o, k) \in ledger
    /\ FinishMessage \in sent
    /\ cache[o].set
    /\ status[o] = "Finished"
C4_HappyPath ==
    (batch = {"o1"} /\ plan["o1"] >= 1 /\ ~cache["o1"].set) => <>HappyDone("o1")
C4_Witness ==
    /\ peerMode = "valid"
    /\ batch = {"o1"}
    /\ plan["o1"] = MaxChunks
    /\ WrittenIdx = [i \in 1..MaxChunks |-> i - 1]
    /\ HappyDone("o1")

\* C5: with a peer that follows the protocol and a pull list of two
\* objects, no interleaving of the objects' frames leads to an Abort.
C5_NoAbort ==
    (peerMode = "valid" /\ envOk /\ Cardinality(batch) >= 2) => Abort \notin sent

\* C6: when the chunk validator gave up on an object, the object is neither
\* upserted into the cache with a location nor reported Finished.
C6_GivenUpNotCommitted ==
    vpc \in {"err_missing", "err_checksum"} =>
        /\ ~cache[cur].set
        /\ status[cur] # "Finished"

\* C7: while the peer keeps answering with a wrong-checksum Chunk(0), the
\* validator requests chunk 0 again after each bad attempt, and after the
\* 6th bad attempt it has failed with the checksum retry-exhaustion error.
C7_ChecksumExhaustion ==
    /\ badRun \in 1..RetryLimit =>
          (vpc = "run" /\ lastRetry = <<RetryChunk(cur, 0)>>)
    /\ badRun = RetryLimit + 1 => vpc = "err_checksum"

\* C8: when the validator of an object with 3 chunks has taken Chunk(0),
\* Chunk(2), Chunk(1), Chunk(2), all with correct checksums, then Chunk(2)
\* was dropped the first time and answered with RetryChunk{chunk_idx: 1},
\* and the object completes with chunks 0, 1, 2 written in that order.
C8_OutOfOrderRecovery ==
    /\ (oooRun = 2 /\ maxChunks = 3) =>
          /\ vpc = "run"
          /\ WrittenIdx = <<0>>
          /\ lastRetry = <<RetryChunk(cur, 1)>>
    /\ (oooRun = 4 /\ maxChunks = 3) =>
          /\ vpc = "ok"
          /\ WrittenIdx = <<0, 1, 2>>
          /\ lastRetry = <<RetryChunk(cur, 1)>>
          /\ retry = 1
C8_Witness == oooRun = 4 /\ maxChunks = 3 /\ vpc = "ok"

\* C9: a chunk that passes the index check but fails the MD5 check does not
\* advance the expected index.
C9_BadChecksumKeepsExpected ==
    [][(/\ vpc = "run"
        /\ queue[cur] # <<>>
        /\ queue'[cur] = Tail(queue[cur])
        /\ Head(queue[cur]).chunk_idx = expected
        /\ Md5Hex(Head(queue[cur]).data) # Head(queue[cur]).checksum)
       => expected' = expected]_vars

\* C10: whenever Finished has been reported for an object, the cache holds
\* a location for it whose disk_hash is set and whose disk_content_len is
\* greater than 0.
C10_FinishedHasLocation ==
    \A o \in Objs :
        status[o] = "Finished" =>
            /\ cache[o].set
            /\ cache[o].disk_hash # <<>>
            /\ cache[o].disk_content_len > 0

\* ------------------------------------------------------ scheduler claims
\* The process loop has finished a tick with this step.
TickEnds == spc # "sleep" /\ spc' = "sleep"

InQueue(e, d) == intents[e].present /\ d \in Elems(intents[e].list)

\* C11: a failed batch is retried: after a session has failed the process
\* loop of the scheduler is still running (so that the next tick can open
\* a session with the intents that are still queued).  spc = "dead" is the
\* process task ended by the error of a session.
C11_ProcessLoopKeepsRunning == spc # "dead"

\* What the queue has to look like when a tick has ended.
Evicted ==
    \A e \in Endpoints :
       /\ \A o \in Objs :
             (/\ <<e, o>> \in tickPulled
              /\ <<e, Pull(o)>> \notin tickHandled) => ~InQueue(e, Pull(o))
       /\ \A d \in Directions :
             (/\ <<e, d>> \in handled
              /\ d.dir = "Pull"
              /\ <<e, d.id>> \notin pulled) => InQueue(e, d)
       /\ intents[e].present => intents[e].list # <<>>

\* C12: queue eviction: when a tick ends, every pull intent whose object a
\* session of the tick returned is out of the queue (unless the same
\* intent was queued again during the tick), every pull intent that was
\* taken into the queue and whose object was not returned is still queued,
\* and no endpoint key maps to an empty list.
C12_QueueEviction == [][TickEnds => Evicted']_vars

\* C13: no intent is lost under concurrency: every message the receive
\* task has put into the queue and whose object no session has returned is
\* in the queue, whatever the interleaving with the eviction steps.
C13_NoIntentLost ==
    \A e \in Endpoints, d \in Directions :
       (/\ <<e, d>> \in handled
        /\ d.dir = "Pull" => <<e, d.id>> \notin pulled) => InQueue(e, d)

\* C14: Push intents are discarded: when a tick ends, no Push intent that
\* a session of the tick saw is still queued, and no stream is ever opened
\* for an endpoint whose list holds nothing but Push intents that an
\* earlier tick saw.
C14_PushDiscarded ==
    [][/\ TickEnds => \A e \in Endpoints, d \in Directions :
                         <<e, d>> \in pushSeen => ~InQueue(e, d)'
       /\ ~pushOnlyOpened']_vars

\* ----------------------------------------------------------- auth claims
\* The token of a check_permissions call passed the header, key,
\* signature, expiry and audience checks.
Validated ==
    /\ KidSerial(ain.token.kid) \in ain.known
    /\ ain.token.signer = KidSerial(ain.token.kid)
    /\ ExpValid(ain.token.exp, ain.now, ain.leeway)
    /\ AudienceOk(ain.token.aud)

\* The token carries no intent, or one that decodes.
NoIntent == ain.token.it = <<>>
Decodes == ~NoIntent /\ Deserialize("auth", ain.token.it[1]).kind = "Ok"
Carried == Deserialize("auth", ain.token.it[1]).intent

\* The intent rule: no intent, or All, or CreateSecrets / DpExchange
\* addressed to this proxy.
IntentAccepted ==
    \/ NoIntent
    \/ /\ Decodes
       /\ \/ Carried.action = "All"
          \/ /\ Carried.action \in {"CreateSecrets", "DpExchange"}
             /\ Carried.target = self_id

IntentRule ==
    /\ aout.kind = "Ok" <=> IntentAccepted
    /\ (/\ Decodes
        /\ Carried.action \in {"CreateSecrets", "DpExchange"}
        /\ Carried.target # self_id)
          => (aout.kind = "Err" /\ aout.msg = "Token is not valid for this Dataproxy")
    /\ (Decodes /\ Carried.action \in {"Impersonate", "FetchInfo"})
          => aout.kind = "Err"

\* C15 (as stated): for a token that passes signature, expiry and audience
\* validation, check_permissions accepts iff the token carries no intent,
\* or intent All, or CreateSecrets / DpExchange with target = self_id;
\* the other targets and Impersonate and FetchInfo are rejected.
C15_InboundIntentDecision ==
    (aop = "check_permissions" /\ Validated /\ (NoIntent \/ Decodes)) => IntentRule

\* C15 (amended): the same decision, for tokens whose sub is a ULID.
C15_InboundIntentDecisionUlidSub ==
    (/\ aop = "check_permissions"
     /\ Validated
     /\ NoIntent \/ Decodes
     /\ IsUlid(ain.token.sub)) => IntentRule

C15_Witness ==
    /\ aop = "check_permissions"
    /\ Validated
    /\ Decodes
    /\ Carried = [target |-> "U2", action |-> "CreateSecrets"]
    /\ IsUlid(ain.token.sub)
    /\ aout.msg = "Token is not valid for this Dataproxy"

\* The token names a serial in its kid and was signed with that key.
SignedWithKid ==
    /\ KidSerial(ain.token.kid) \in Serials
    /\ ain.token.signer = KidSerial(ain.token.kid)

\* C16 (as stated): a token signed with key serial k verifies iff the
\* cache holds public key k, exp > now and the audience is "proxy".
C16_VerifyIff ==
    (aop = "check_permissions" /\ SignedWithKid) =>
        (aout.kind = "Ok" <=> /\ KidSerial(ain.token.kid) \in ain.known
                              /\ ain.token.exp > ain.now
                              /\ ain.token.aud = "proxy")

\* C16 (amended): a token signed with key serial k, whose sub is a ULID
\* and whose intent (if any) the intent rule accepts, verifies iff the
\* cache holds public key k, exp is not before now by more than the leeway
\* of the validation, and the audience is "proxy".
C16_VerifyIffAcceptedIntent ==
    (/\ aop = "check_permissions"
     /\ SignedWithKid
     /\ IntentAccepted
     /\ IsUlid(ain.token.sub)) =>
        (aout.kind = "Ok" <=> /\ KidSerial(ain.token.kid) \in ain.known
                              /\ ain.token.exp >= ain.now - ain.leeway
                              /\ ain.token.aud = "proxy")

C16_Witness ==
    /\ aop = "check_permissions"
    /\ SignedWithKid
    /\ NoIntent
    /\ ain.token.kid = "2"
    /\ ain.known = {1, 2}
    /\ ain.token.aud = "aruna"
    /\ ain.token.exp > ain.now
    /\ aout.kind = "Err"

\* The byte values of the intent taxonomy.
TaxonomyByte ==
    [All |-> 0, CreateSecrets |-> 1, Impersonate |-> 2, FetchInfo |-> 3,
     DpExchange |-> 4]

\* "<target-ulid>_<action-byte>" with a byte of the taxonomy.
WellFormed(s) ==
    /\ Len(s) = 2
    /\ IsUlid(s[1])
    /\ \E a \in DOMAIN TaxonomyByte : s[2] = ToDecimal(TaxonomyByte[a])

\* C17: the intent encoding round-trips in every module that has the
\* codec: an intent is encoded as its target and the byte of its action in
\* the taxonomy, decoding that string gives the intent back, and every
\* well-formed string decodes and encodes to itself.
C17_IntentRoundTrip ==
    aop = "codec" =>
        /\ ain.intent.action \in DOMAIN TaxonomyByte =>
              aout.ser = <<ain.intent.target,
                           ToDecimal(TaxonomyByte[ain.intent.action])>>
        /\ aout.deser = [kind |-> "Ok", intent |-> ain.intent]
        /\ WellFormed(ain.string) =>
              (aout.de.kind = "Ok" /\ aout.reser = ain.string)

\* No separator, a target that is no ULID, an action that is no number, or
\* a byte outside 0..4.
Malformed(s) ==
    \/ Len(s) < 2
    \/ ~IsUlid(s[1])
    \/ U8FromStr(s[2]) < 0
    \/ U8FromStr(s[2]) > 4

\* C18: a token whose intent string is malformed makes check_permissions
\* return an error: it is never accepted and the call never panics.
C18_MalformedIntentRejected ==
    (/\ aop = "check_permissions"
     /\ ~NoIntent
     /\ Malformed(ain.token.it[1])) => aout.kind = "Err"

\* C19: on an object path in bucket "objects" or "bundles" every non-read
\* method is rejected with MethodNotAllowed before any credential lookup,
\* resource resolution or rule evaluation, whatever the credentials are.
C19_SpecialBucketsReadOnly ==
    (/\ aop = "handle_object"
     /\ ain.bucket \in {"objects", "bundles"}
     /\ ain.method \in {"PUT", "POST", "DELETE"}) =>
        /\ aout.kind = "Err"
        /\ aout.code = "MethodNotAllowed"
        /\ aout.touched = {}

C19_Witness ==
    /\ aop = "handle_object"
    /\ ain.bucket = "bundles"
    /\ ain.method = "PUT"
    /\ ain.creds = "AK1"
    /\ ain.rulesAllow
    /\ aout.code = "MethodNotAllowed"

\* The credentials name a key of the cache whose user has attributes.
Resolvable ==
    /\ ain.creds # "none"
    /\ ain.creds \in DOMAIN KeyPerms
    /\ KeyPerms[ain.creds] \in UserAttributes

\* C20: a Root request succeeds iff credentials are given, the access key
\* is known to the cache with user attributes, and the root rules allow;
\* the result then carries the user id and the access key as token id and
\* neither location nor resource states; without resolvable credentials
\* the request fails with AccessDenied.
C20_RootRequest ==
    aop = "handle_root" =>
        /\ aout.kind = "Ok" <=> (Resolvable /\ ain.rulesAllow)
        /\ aout.kind = "Ok" =>
              /\ aout.user_id = KeyPerms[ain.creds]
              /\ aout.token_id = ain.creds
              /\ aout.location = "none"
              /\ aout.resource_states = NoStates
        /\ ~Resolvable => (aout.kind = "Err" /\ aout.code = "AccessDenied")

C20_Witness ==
    /\ aop = "handle_root"
    /\ ain.creds = "AK1"
    /\ ain.rulesAllow
    /\ aout.kind = "Ok"
    /\ aout.user_id = "U1"
    /\ aout.token_id = "AK1"

\* C21: a GET on a bucket path whose bucket is not in the cache, issued with
\* a known access key, resolves to resource states with the one missing
\* slot (0, 1, name) and fails with NoSuchKey, not with AccessDenied or
\* InternalError.
C21_MissingBucketNoSuchKey ==
    (/\ aop = "handle_bucket"
     /\ ain.method = "GET"
     /\ ain.found = "None"
     /\ ExtractAccessKeyPerms(ain.creds) # <<>>) =>
        /\ PrefixIntoResourceStates(<<[found |-> "None", name |-> ain.bucket]>>).states.missing
              = <<<<0, 1, ain.bucket>>>>
        /\ aout.kind = "Err"
        /\ S3Code(aout.code) = "NoSuchKey"

\* A read of an existing, fully synced object in a bucket of the cache: the
\* path resolves with nothing missing, project and object are set, the
\* object has a location and is not partially synced.
ReadOfSyncedObject ==
    /\ aop = "handle_object"
    /\ ~SpecialBucket(ain.bucket)
    /\ IsMethodRead(ain.method)
    /\ ain.resolution.resolves = "Ok"
    /\ ~ain.resolution.missing
    /\ ain.resolution.project
    /\ ain.resolution.object
    /\ ain.resolution.located
    /\ ~ain.resolution.partial

\* C22: a read of an existing, fully synced Public object without
\* credentials succeeds iff the object rules allow; on success the
\* permission check was skipped, the rules were evaluated and the location
\* of the object is attached to the result.
C22_PublicObjectWithoutCreds ==
    (ReadOfSyncedObject /\ ain.resolution.public /\ ain.creds = "none") =>
        /\ aout.kind = "Ok" <=> ain.rulesAllow
        /\ aout.kind = "Ok" =>
              /\ "permissions" \notin aout.touched
              /\ "rules" \in aout.touched
              /\ aout.location = "location"
              /\ aout.user_id = "none"

C22_Witness ==
    /\ ReadOfSyncedObject
    /\ ain.resolution.public
    /\ ain.creds = "none"
    /\ ain.method = "GET"
    /\ ain.rulesAllow
    /\ aout.kind = "Ok"
    /\ aout.location = "location"

\* C23: for an object that is not Public, a request without credentials or
\* with an access key the cache does not resolve never succeeds, and a
\* request with known credentials succeeds only if the key has the
\* permission the method requires.
C23_PrivateObjectNeedsPermission ==
    (/\ aop = "handle_object"
     /\ ~SpecialBucket(ain.bucket)
     /\ ain.resolution.resolves = "Ok"
     /\ ain.resolution.object
     /\ ~ain.resolution.public) =>
        /\ ExtractAccessKeyPerms(ain.creds) = <<>> => aout.kind # "Ok"
        /\ (ExtractAccessKeyPerms(ain.creds) # <<>> /\ aout.kind = "Ok") =>
              ain.resolution.permitted

\* The positions (from 0) of the prefixes the cache has no resource for.
UnresolvedAt(prefixes) == {i \in 0..(Len(prefixes) - 1) : prefixes[i + 1].found = "None"}

\* C24: for a prefix list of length n the resolver records one missing slot
\* per unresolved prefix, at pairwise distinct positions in 0..n-1 and with
\* total n; a prefix that resolves to a type other than Project, Collection,
\* Dataset or Object fails the resolution with NoSuchKey, and every other
\* failure, that of validate(), is InternalError.
C24_MissingSlots ==
    aop = "resolve" =>
        LET P == ain.prefixes
            n == Len(P)
            m == aout.states.missing
        IN
        /\ aout.kind = "Ok" =>
              /\ Len(m) = Cardinality(UnresolvedAt(P))
              /\ {m[i][1] : i \in 1..Len(m)} = UnresolvedAt(P)
              /\ \A i, j \in 1..Len(m) : m[i][1] = m[j][1] => i = j
              /\ \A i \in 1..Len(m) :
                    /\ m[i][1] \in 0..(n - 1)
                    /\ m[i][2] = n
                    /\ m[i][3] = P[m[i][1] + 1].name
        /\ (\E i \in 1..n : P[i].found = "Other") =>
              (aout.kind = "Err" /\ aout.code = "NoSuchKey")
        /\ ((\A i \in 1..n : P[i].found # "Other") /\ aout.kind = "Err") =>
              aout.code = "InternalError"

C24_Witness ==
    /\ aop = "resolve"
    /\ Len(ain.prefixes) = 3
    /\ ain.prefixes[1].found = "Project"
    /\ ain.prefixes[2].found = "None"
    /\ ain.prefixes[3].found = "None"
    /\ aout.kind = "Ok"
    /\ aout.states.missing = <<<<1, 3, "k1">>, <<2, 3, "k2">>>>

\* ------------------------------------------------------- presign claims
\* The parameters sign_url put into the URL.
Produced ==
    SignedParamsQuery(QueryValue(signed, "signature"), QueryValue(signed, "salt"),
                      QueryValue(signed, "expiry"))

\* C25: the salt, expiry and signature parameters sign_url produced verify
\* as valid against the path of the signed URL, and as invalid against a
\* different path or with an altered salt or expiry.
C25_PresignRoundTrip ==
    (verified # <<>> /\ verified.params.signature = Produced.signature) =>
        /\ (verified.params = Produced /\ verified.path = signed.path) =>
              (verified.out.kind = "Ok" /\ verified.out.valid)
        /\ (\/ verified.path # signed.path
            \/ verified.params.salt # Produced.salt
            \/ verified.params.expiry # Produced.expiry) =>
              (verified.out.kind = "Ok" /\ ~verified.out.valid)

\* ------------------------------------------------------- backend claims
\* C26: bucket creation is idempotent: whatever the order and interleaving
\* of create_bucket, put_object and init_multipart_upload calls for a
\* bucket name, every call returns success and the bucket exists afterwards.
C26_BucketCreationIdempotent ==
    \A c \in Callers : \A i \in 1..Len(cres[c]) :
        /\ cres[c][i].result = "Ok"
        /\ cres[c][i].bucket \in buckets

\* --------------------------------------------------------- range claims
\* The number of bytes the inclusive wire range denotes on an object of
\* content length L.
Denoted(r, L) ==
    IF r.kind = "Int"
    THEN IF r.last # <<>> THEN r.last[1] - r.first + 1 ELSE L - r.first
    ELSE IF r.length < L THEN r.length ELSE L

\* C27: for every S3 range on an object of content length L without footer,
\* calculate_ranges returns a half-open range [from, to) whose content
\* length is the number of bytes the wire range denotes, without unsigned
\* underflow and with to <= L.
C27_RangeNormalization ==
    rin # <<>> =>
        /\ rout.kind = "Ok"
        /\ rout.len = Denoted(rin.range, rin.content_length)
        /\ rout.to <= rin.content_length

\* ------------------------------------------------------ finalizer claims
\* Every Info(id, N) marker of the finalizer's snapshot has exactly N chunk
\* markers, or its object is recorded as already synced.
SnapshotComplete ==
    \A m \in {x \in fsnap : x.kind = "Info"} :
        Collected(fsnap, m.id) = m.n \/ finished[m.id] = "true"

\* The finalizer ends its check of a snapshot.
Verdict == main = "check" /\ main' # "check"

\* C28: when the finalizer has checked the ledger snapshot it sends
\* FinishMessage iff every Info(id, N) marker has exactly N distinct
\* Chunk(id, *) markers or its object is recorded as already synced;
\* otherwise it sends Abort, sends no FinishMessage, and the batch fails.
C28_FinalizerVerdict ==
    [][Verdict =>
          \/ /\ SnapshotComplete'
             /\ FinishMessage \in sent'
             /\ main' = "wait"
          \/ /\ ~SnapshotComplete'
             /\ Abort \in sent'
             /\ FinishMessage \notin sent'
             /\ main' = "aborted"]_vars

C28_Witness ==
    /\ main = "aborted"
    /\ Abort \in sent
    /\ \E m \in fsnap : m.kind = "Info" /\ m.n = 2 /\ Collected(fsnap, m.id) = 1

\* --------------------------------------------------------- driver claims
\* The driver leaves its loop over the passes.
DriverLoopEnds == drv = "pass" /\ drv' = "wait"

\* C29: after the start signal the driver makes at most 20 passes over the
\* object-handler map; when the map is still not empty after the 20th pass
\* it sends Abort and then the Finish signal to the ledger and stops, and
\* when the map is empty after an earlier pass it sends the Finish signal
\* only.
C29_DriverPassBound ==
    [][/\ passes' <= PassLimit
       /\ DriverLoopEnds =>
             /\ snapshot' = <<ledger>>
             /\ IF Present(map) # {}
                THEN passes = PassLimit /\ Abort \in sent'
                ELSE sent' = sent]_vars

\* ---------------------------------------------------------- demux claims
\* The demux reads the next chunk frame of object o (index peerNext[o]).
ChunkRead(o) == dpc = "recv" /\ peerNext[o] >= 0 /\ peerNext'[o] = peerNext[o] + 1

\* The demux reads a chunk frame the peer sent out of turn.
ExtraRead == dpc = "recv" /\ frames' = frames + 1

\* The frame is answered with RetryObjectId(o) and nothing else happens to
\* it: no queue and no ledger changes, no ChunkAck, the demux reads on.
RetryOnly(o) ==
    /\ RetryObjectId(o) \in sent'
    /\ sent' \ sent \subseteq {RetryObjectId(o)}
    /\ queue' = queue
    /\ ledger' = ledger
    /\ dcur' = <<>>
    /\ dpc' = "recv"

\* The chunk in hand is forwarded to the queue of its object, at once or,
\* with the queue full, as soon as there is room; no frame is sent yet.
Forwarding ==
    /\ dcur' # <<>>
    /\ sent' = sent
    /\ ledger' = ledger
    /\ LET o == dcur'[1].object_id IN
       \/ dpc' = "ack" /\ queue' = [queue EXCEPT ![o] = Append(@, dcur'[1])]
       \/ dpc' = "blocked" /\ queue' = queue /\ Len(queue[o]) = QueueCap

\* C30: a Chunk frame for an object id without entry in the object-handler
\* map is answered with RetryObjectId(object_id): it is forwarded to no
\* queue, adds no Chunk marker to the ledger and gets no ChunkAck.  A Chunk
\* frame for a mapped object is forwarded to the queue of the object,
\* recorded as Chunk(id, idx) in the ledger and answered with ChunkAck.
C30_UnknownObjectRetry ==
    [][/\ \A o \in Objs : ChunkRead(o) =>
             IF ~map[o].present THEN RetryOnly(o)
             ELSE /\ Forwarding
                  /\ dcur'[1].object_id = o
                  /\ dcur'[1].chunk_idx = peerNext[o]
       /\ ExtraRead =>
             \/ Forwarding /\ map[dcur'[1].object_id].present
             \/ \E o \in Objs : ~map[o].present /\ RetryOnly(o)
       /\ (dpc = "blocked" /\ dpc' # "blocked") =>
             /\ dpc' = "ack"
             /\ queue' = [queue EXCEPT ![dcur[1].object_id] = Append(@, dcur[1])]
       /\ (dpc = "ack" /\ dpc' # "ack") =>
             /\ ledger' = ledger \cup {ChunkMark(dcur[1].object_id, dcur[1].chunk_idx)}
             /\ sent' = sent \cup {ChunkAck(dcur[1].object_id, dcur[1].chunk_idx)}]_vars

\* An object lost its map entry before any of its chunks was recorded (the
\* driver found it already synced) and a chunk frame for it was answered
\* with RetryObjectId, and a chunk of a mapped object was acknowledged.
C30_Witness ==
    /\ \E o \in Objs : RetryObjectId(o) \in sent /\ ~map[o].present
                         /\ ChunkMark(o, 0) \notin ledger
    /\ \E o \in Objs, k \in 0..(MaxChunks - 1) :
          ChunkAck(o, k) \in sent /\ ChunkMark(o, k) \in ledger

\* ---------------------------------------------------------------------
\* The demux read an ObjectInfo or a Chunk frame of the peer.
Consumed == peerNext' # peerNext \/ frames' # frames

\* The acks (InfoAck, ChunkAck) put on the outbound stream by a step.
NewAcks == {a \in sent' \ sent : a.kind \in {"InfoAck", "ChunkAck"}}

\* C31: acks leave in the order in which the demux consumed the frames, one
\* ack per accepted frame, whatever the driver and the validator send in
\* between.  Stated step by step: the demux consumes a frame only when no
\* ack is due; an ObjectInfo is acked in the step that consumes it; a chunk
\* that was accepted is the only frame whose ack is due until its ChunkAck
\* is sent, and that ack ends its turn; no other step sends an ack.
C31_AckOrdering ==
    [][/\ Consumed => dcur = <<>>
       /\ \A a \in NewAcks :
             IF a.kind = "InfoAck"
             THEN dcur = <<>> /\ peerNext[a.id] = -1 /\ peerNext'[a.id] = 0
             ELSE /\ dcur = <<DataChunk(a.id, a.n, dcur[1].data, dcur[1].checksum)>>
                  /\ dcur' = <<>>
       /\ (dcur = <<>> /\ dcur' # <<>>) => Consumed /\ NewAcks = {}
       /\ (dcur # <<>> /\ dcur' # dcur) =>
             /\ dcur' = <<>>
             /\ ChunkAck(dcur[1].object_id, dcur[1].chunk_idx) \in sent'
       /\ \A o \in Objs : (peerNext[o] = -1 /\ peerNext'[o] = 0) => InfoAck(o) \in sent']_vars

\* Both kinds of ack were sent for an object, the second chunk's ack after
\* the validator asked for a chunk again.
C31_Witness ==
    /\ InfoAck("o1") \in sent
    /\ ChunkAck("o1", 0) \in sent
    /\ ChunkAck("o1", 1) \in sent
    /\ lastRetry # <<>>
    /\ dpc = "recv"

\* ---------------------------------------------------------------------
\* A step of the backend driver task other than its exit on a closed start
\* channel.
DriverActs ==
    /\ drv # "idle"
    /\ \/ drv' # drv /\ ~(drv = "wait" /\ drv' = "done")
       \/ todo' # todo
       \/ passes' # passes
       \/ snap' # snap
       \/ cache' # cache

\* The driver hands an object to initialize_location and load_into_backend.
LoadStarts == drv = "pass" /\ drv' \in {"load", "err"} /\ todo' # todo

\* C32: the driver takes no step before the first InfoAck of the session
\* was sent, and it starts initialize_location / load_into_backend for an
\* object only when the object's ObjectInfo is recorded in the handler map
\* (info_received = true, with the advertised chunk count, which is the
\* max_chunks of the load) and was acked.
C32_DriverWaitsForInfo ==
    [][/\ DriverActs => \E o \in Objs : InfoAck(o) \in sent
       /\ LoadStarts =>
             \E o \in todo \ todo' :
                /\ map[o].present /\ map[o].info
                /\ Info(o, map[o].chunks) \in ledger
                /\ InfoAck(o) \in sent
                /\ drv' = "load" => (cur' = o /\ maxChunks' = map[o].chunks)]_vars

\* The driver loads o2 after it skipped o1, an entry of the same snapshot
\* that still awaits its ObjectInfo.
C32_Witness ==
    /\ drv = "load"
    /\ cur = "o2"
    /\ snap["o1"].present
    /\ "o1" \notin todo
    /\ map["o1"].present
    /\ ~map["o1"].info
    /\ InfoAck("o1") \notin sent

\* ---------------------------------------------------------------------
\* C33: an exchange token minted with sign_dataproxy_token(target = T) and
\* presented within its lifetime is accepted by check_permissions of proxy
\* T when T's cache holds the minter's public key under the token's kid,
\* yielding the minter's id and no token id; check_permissions of a proxy
\* that is not T rejects it; impersonation and notification tokens are
\* rejected by every proxy.
C33_MintedTokenScope ==
    aop = "minted" =>
       IF ain.kind = "dataproxy"
       THEN /\ ( /\ ain.target = self_id
                 /\ KeySerial(ain.minter) \in ain.known
                 /\ ain.now <= ain.token.exp )
               => aout = [kind |-> "Ok", msg |-> "", sub |-> ain.minter, tid |-> "none"]
            /\ ain.target # self_id => aout.kind = "Err"
       ELSE aout.kind = "Err"

\* The other proxy minted an exchange token for this proxy, and this proxy
\* accepted it.
C33_Witness ==
    /\ aop = "minted"
    /\ ain.kind = "dataproxy"
    /\ ain.minter # self_id
    /\ ain.target = self_id
    /\ aout.kind = "Ok"

\* ---------------------------------------------------------------------
\* handle_object resolved a path some segments of which are missing; for
\* a mutating method they are trailing segments, so no object is resolved.
MissingSegments ==
    /\ aop = "handle_object"
    /\ ~SpecialBucket(ain.bucket)
    /\ ain.resolution.resolves = "Ok"
    /\ ain.resolution.missing
    /\ ~IsMethodRead(ain.method) => ~ain.resolution.object

\* C34: missing segments fail a read with NoSuchKey; a mutating request on
\* a path whose trailing segments are missing is not failed with NoSuchKey
\* on their account, and its outcome is that of the permission and rule
\* checks.
C34_MissingOnlyOnReads ==
    MissingSegments =>
       IF IsMethodRead(ain.method)
       THEN aout.kind = "Err" /\ S3Code(aout.code) = "NoSuchKey"
       ELSE S3Code(aout.code) # "NoSuchKey"

\* The read half of C34 on its own.
MissingFailsReads ==
    (MissingSegments /\ IsMethodRead(ain.method)) =>
       (aout.kind = "Err" /\ S3Code(aout.code) = "NoSuchKey")

\* A mutating request with missing trailing segments ends with NoSuchKey
\* exactly when it carries credentials the cache resolves, the path is not
\* partially synced and a project is resolved.
MissingFailsKnownKey ==
    (MissingSegments /\ ~IsMethodRead(ain.method)) =>
       (S3Code(aout.code) = "NoSuchKey" <=>
          /\ ExtractAccessKeyPerms(ain.creds) # <<>>
          /\ ~ain.resolution.partial
          /\ ain.resolution.project)

\* ---------------------------------------------------------------------
\* load_into_backend gave up on retries.
Exhausted == vpc \in {"err_missing", "err_checksum"}

\* C35: the retry budget is per chunk: when the chunks forwarded so far
\* are the chunks 0..expected-1 and needed no more than RetryLimit retries
\* between them, a load is given up only on a chunk that failed more than
\* RetryLimit times itself (its own retries so far and the failure at hand).
C35_RetryBudgetPerChunk ==
    ( /\ Exhausted
      /\ spent <= RetryLimit
      /\ WrittenIdx = [i \in 1..Len(written) |-> i - 1] )
    => (retry - spent) + 1 > RetryLimit

\* What the code does: the budget is that of the whole object.
ExhaustedPerObject == Exhausted => retry = RetryLimit + 1

\* ---------------------------------------------------------------------
\* The inbound stream ended: the demux task returned (FinishMessage or end
\* of stream: Ok; a response without message: Err).
StreamEnded == dpc \in {"done", "err"}

\* process() is over for the session: it returned or failed.
ProcessOver == main \in {"returned", "failed", "aborted"}

\* C36: once the inbound stream has ended the session runs to its end.
\* Stated as the safety property that termination needs: as long as
\* process() has not returned, some task of the session can take a step.
\* An object without chunks is left aside (its load waits whether or not
\* the stream has ended).
C36_SessionTerminates ==
    (StreamEnded /\ ~ProcessOver /\ (drv = "load" => maxChunks > 0)) => ENABLED Next

\* The state in which the session hangs: the stream ended while the driver
\* is inside load_into_backend and the validator waits for a chunk on an
\* empty queue whose senders the driver's own map keeps alive.
HangsInLoad ==
    /\ StreamEnded
    /\ drv = "load"
    /\ vpc = "run"
    /\ wpc = "run"
    /\ queue[cur] = <<>>
    /\ main = "wait"

\* Every state after the end of the stream without a step of the session,
\* process() not over, is of that kind.
OnlyHangInLoad == (StreamEnded /\ ~ProcessOver /\ ~ENABLED Next) => HangsInLoad

\* The hang with chunks of the object still to come.
HangsAwaitingChunks == HangsInLoad /\ expected < maxChunks /\ ~ENABLED Next

\* ---------------------------------------------------------------------
\* C37: Abort and FinishMessage exclude each other on the outbound stream
\* of a session.
C37_AbortExcludesFinish == ~(Abort \in sent /\ FinishMessage \in sent)

\* ---------------------------------------------------------------------
\* The chunks forwarded to the writer are the chunks 0..N-1 of the object
\* in hand, each once, N being the chunk count of its ObjectInfo.
AllForwardedOnce == WrittenIdx = [i \in 1..maxChunks |-> i - 1]

\* C38: the driver upserts the location of an object and reports it
\* Finished only when every chunk 0..N-1 advertised in its ObjectInfo was
\* validated and forwarded to the writer exactly once.
C38_CompleteAtCommit ==
    [][(cache'[cur] # cache[cur] \/ (status'[cur] = "Finished" /\ status[cur] # "Finished"))
          => AllForwardedOnce]_vars

\* ---------------------------------------------------------------------
\* The object was put on the pull list and marked Running by this session.
MarkedRunning(o) == o \in batch /\ main # "init" /\ main # "failed"

\* C39: an object for which the session succeeds (its location was found
\* in the cache by the driver, or it was pulled and upserted) and which is
\* returned to the scheduler for eviction has been reported Finished.
C39_SucceededIsFinished ==
    main = "returned" =>
       \A o \in result[1] :
          (MarkedRunning(o) /\ cache[o].set) => status[o] = "Finished"

\* C39 for the objects the session pulled itself: the location in the
\* cache is the one this session's load filled in.
PulledIsFinished ==
    main = "returned" =>
       \A o \in result[1] :
          (MarkedRunning(o) /\ cache[o].set /\ cache[o] # OldLocation)
             => status[o] = "Finished"

\* The already-synced branch of the driver leaves the status Running, also
\* when no call fails.
SyncedStaysRunning ==
    /\ main = "returned"
    /\ envOk
    /\ "o1" \in result[1]
    /\ finished["o1"] = "true"
    /\ cache["o1"] = OldLocation
    /\ status["o1"] = "Running"

\* ---------------------------------------------------------------------
\* load_into_backend runs for an object whose ObjectInfo advertised no
\* chunks.
ZeroChunkLoad == drv = "load" /\ maxChunks = 0

\* C40: the load of a zero-chunk object ends without a chunk: while it
\* runs, validator, writer or driver can take a step that does not consume
\* a chunk.
C40_ZeroChunksTerminate ==
    (ZeroChunkLoad /\ queue[cur] = <<>>) =>
       ENABLED (ValidatorStep \/ WriterEnd \/ LoadReturn)

\* With no failing call and a peer that sends no chunk for it, the load of
\* a zero-chunk object never ends: the object is not committed.
ZeroChunkNeverCommitted ==
    [][(envOk /\ peerMode = "valid" /\ ZeroChunkLoad)
          => (drv' = "load" /\ vpc' = "run")]_vars

====
